---- MODULE Spec2Model ----
(***************************************************************************)
(* A model of the OpenCode platform adapter of the ring installer          *)
(* (installer/ring_installer/adapters/opencode.py): the configuration      *)
(* merge of merge_hooks_to_config, the install-path resolution of          *)
(* get_install_path and the transform operations.                          *)
(***************************************************************************)
EXTENDS Integers, Sequences, FiniteSets, TLC

VARIABLES
    fs,             \* the file system: directory |-> [dir, json]
    env,            \* the OPENCODE_CONFIG_PATH environment variable
    config,         \* the adapter's config ("install_path" entry)
    install_path,   \* the adapter's memoized _install_path
    last,           \* the last call made on the adapter, its arguments and outcome
    hist,           \* observations kept across calls (per specification)
    procs           \* the merges in flight (concurrent specification)

vars == <<fs, env, config, install_path, last, hist, procs>>

(***************************************************************************)
(* Bounds of the model.                                                    *)
(***************************************************************************)
\* the longest hook list a merge is left to build
MaxLen == 2
\* the most successive merges the repeated-merge specification follows, and
\* the longest list it lets them build
MaxRepeat == 3
MaxRepeatLen == 4
\* the most calls of get_install_path the install-path specification follows
MaxCalls == 3
\* the most pieces a drawn document's text is made of
MaxChunks == 3
\* the most entries of a drawn tools list or tools mapping
MaxTools == 3
\* the most items of a list written in a drawn header
MaxItems == 2

(***************************************************************************)
(* Maps (Python dicts, JSON objects) are functions; EmptyMap is {}.        *)
(***************************************************************************)
EmptyMap == [k \in {} |-> k]

\* hook entries are opaque JSON values; only their identity and order matter
Entries == {"X", "Y"}

(***************************************************************************)
(* JSON values as the merge sees them.  A value read from opencode.json    *)
(* is a record of fixed shape:                                             *)
(*   top    what the top level is: "dict", "list" (a list without the      *)
(*          string "hooks"), "listWithHooks" (a list holding the string    *)
(*          "hooks"), "null"                                               *)
(*   other  the top-level keys other than "hooks", with their values       *)
(*   hooks  the value of the "hooks" key: kind "absent", "dict", "list"    *)
(*          or "null"; for a dict, ev maps each event name to              *)
(*          [kind |-> "list", items |-> <<entries>>] or [kind |-> "str"].  *)
(***************************************************************************)
ListVal(items) == [kind |-> "list", items |-> items]
StrVal == [kind |-> "str", items |-> <<>>]

HooksAbsent == [kind |-> "absent", ev |-> EmptyMap]
HooksDict(ev) == [kind |-> "dict", ev |-> ev]
HooksList == [kind |-> "list", ev |-> EmptyMap]
HooksNull == [kind |-> "null", ev |-> EmptyMap]

DictCfg(other, hooks) == [top |-> "dict", other |-> other, hooks |-> hooks]
NonDictCfg(top) == [top |-> top, other |-> EmptyMap, hooks |-> HooksAbsent]

\* existing_config: Dict[str, Any] = {}
EmptyCfg == DictCfg(EmptyMap, HooksAbsent)

(***************************************************************************)
(* The text of opencode.json.  A file is                                   *)
(*   exists    whether the file is there                                   *)
(*   comments  how many of its lines are comment lines (trimmed content    *)
(*             starting with "//")                                         *)
(*   syntax    what the other lines are: "json" (text json.loads takes),   *)
(*             "loose" (text that read_text or json.loads rejects: a       *)
(*             trailing comma, a comment after a value, a byte-order       *)
(*             mark, bytes that are not UTF-8), "blank" (only white space) *)
(*   val       the value the other lines hold                              *)
(***************************************************************************)
NoFile == [exists |-> FALSE, comments |-> 0, syntax |-> "blank", val |-> EmptyCfg]
TextFile(comments, syntax, val) ==
    [exists |-> TRUE, comments |-> comments, syntax |-> syntax, val |-> val]

\* json.dumps(existing_config, indent=2): strict JSON text and no comment line
JsonDumps(cfg) == TextFile(0, "json", cfg)

\* the comment filter of the read: every line whose trimmed content starts
\* with "//" is dropped, the others are kept
\* mutant of StripComments: the comment lines are left in
StripCommentsKeeps(file) == file

StripComments(file) == [file EXCEPT !.comments = 0]

\* mutant of ReadExisting: a parser that takes loose text too
ReadExistingLenient(file) ==
    IF ~file.exists \/ file.syntax = "blank" THEN EmptyCfg ELSE file.val

\* json.loads(clean_content) if clean_content.strip() else {}; a raise of
\* read_text or json.loads is caught and leaves existing_config = {}
\* (json.loads takes no comment line)
ReadExisting(file) ==
    IF ~file.exists THEN EmptyCfg
    ELSE LET clean == StripComments(file)
         IN  CASE clean.comments > 0 -> EmptyCfg
               [] clean.syntax = "json" -> clean.val
               [] clean.syntax = "blank" -> EmptyCfg
               [] OTHER -> EmptyCfg

\* whether the read logs "Failed to read opencode.json"
ReadFails(file) == file.exists /\ file.syntax = "loose"

(***************************************************************************)
(* The incoming hooks_config is a Python dict: key |-> value, a value      *)
(* being a list of entries or (under the key "hooks") a dict of lists.     *)
(***************************************************************************)
InList(items) == [kind |-> "list", items |-> items, ev |-> EmptyMap]
InDict(ev) == [kind |-> "dict", items |-> <<>>, ev |-> ev]

\* {"hooks": H}
Wrapped(ev) == ("hooks" :> InDict(ev))
\* H itself
Bare(ev) == [k \in DOMAIN ev |-> InList(ev[k])]

\* hooks_to_merge = hooks_config.get("hooks", hooks_config)
HooksToMerge(hc) ==
    IF "hooks" \in DOMAIN hc THEN hc["hooks"]
    ELSE InDict([k \in DOMAIN hc |-> hc[k].items])

\* mutants of Extend: the new entries put in front; entries already in the
\* list left out
ExtendPrepends(items, event_hooks) == event_hooks \o items
ExtendNoDuplicates(items, event_hooks) ==
    items \o SelectSeq(event_hooks, LAMBDA x : \A i \in 1..Len(items) : items[i] # x)

\* existing_config["hooks"][event_name].extend(event_hooks)
Extend(items, event_hooks) == items \o event_hooks

\* one round of the loop body for event e: the event's new value
MergeEvent(ev, e, event_hooks) ==
    IF e \notin DOMAIN ev THEN ListVal(Extend(<<>>, event_hooks))
    ELSE ListVal(Extend(ev[e].items, event_hooks))

\* whether lines 480-487 raise (the exception leaves merge_hooks_to_config)
MergeRaises(existing, hc) ==
    LET h == HooksToMerge(hc)
    IN  \/ existing.top \in {"list", "null"}          \* "hooks" not in / []["hooks"] = {}
        \/ h.kind # "dict"                            \* a list has no .items()
        \/ /\ DOMAIN h.ev # {}
           /\ \/ existing.top # "dict"                \* list indices must be integers
              \/ existing.hooks.kind \in {"list", "null"}
              \/ \E e \in DOMAIN h.ev :
                    /\ existing.hooks.kind = "dict"
                    /\ e \in DOMAIN existing.hooks.ev
                    /\ existing.hooks.ev[e].kind # "list"   \* no attribute 'extend'

\* mutant of EnsureHooks: the hooks mapping is set to {} whether or not the
\* key is there
EnsureHooksResets(existing) ==
    IF existing.top = "dict"
    THEN [existing EXCEPT !.hooks = HooksDict(EmptyMap)]
    ELSE existing

\* if "hooks" not in existing_config: existing_config["hooks"] = {}
EnsureHooks(existing) ==
    IF existing.top = "dict" /\ existing.hooks.kind = "absent"
    THEN [existing EXCEPT !.hooks = HooksDict(EmptyMap)]
    ELSE existing

\* lines 480-487 when they do not raise: the merged configuration
MergedConfig(existing, hc) ==
    LET h == HooksToMerge(hc)
        base == EnsureHooks(existing)
    IN  IF DOMAIN h.ev = {} THEN base
        ELSE [base EXCEPT !.hooks.ev =
                [e \in DOMAIN base.hooks.ev \cup DOMAIN h.ev |->
                    IF e \in DOMAIN h.ev
                    THEN MergeEvent(base.hooks.ev, e, h.ev[e])
                    ELSE base.hooks.ev[e]]]

(***************************************************************************)
(* Paths.  A path is [abs, parts]: whether it starts at the root, and its  *)
(* components.  Strings that are turned into paths (the environment        *)
(* override, the configured install_path) have the same shape.             *)
(***************************************************************************)
P(abs, parts) == [abs |-> abs, parts |-> parts]

\* None (self._install_path before the first call, install_path not given)
NoPath == P(FALSE, <<"<None>">>)
\* the environment variable is not set / the config has no install_path
Unset == P(FALSE, <<"<unset>">>)
\* the empty string
EmptyStr == P(FALSE, <<>>)

\* Path.home(), the working directory, and the symbolic links of the machine
Home == P(TRUE, <<"home", "user">>)
Cwd == P(TRUE, <<"srv", "work">>)
Symlinks == (<<"home", "user", "link">> :> <<"mnt">>)
\* the home directories expanduser knows: "~" and "~root"; "~nosuchuser" has none
UserHomes == ("~" :> <<"home", "user">>) @@ ("~root" :> <<"root">>)
TildeParts == {"~", "~root", "~nosuchuser"}

\* config.get("install_path", "~/.config/opencode")
DefaultInstallPath == P(FALSE, <<"~", ".config", "opencode">>)

\* Path.expanduser: a leading "~" or "~name" component is replaced by that
\* user's home directory; RuntimeError when the home cannot be determined
ExpandUserRaises(p) ==
    /\ ~p.abs
    /\ p.parts # <<>>
    /\ Head(p.parts) \in TildeParts
    /\ Head(p.parts) \notin DOMAIN UserHomes

ExpandUser(p) ==
    IF ~p.abs /\ p.parts # <<>> /\ Head(p.parts) \in DOMAIN UserHomes
    THEN P(TRUE, UserHomes[Head(p.parts)] \o Tail(p.parts))
    ELSE p

\* Path.resolve: the walk over the components, ".." dropping the last one
\* and a symbolic link replaced by its target
RECURSIVE ResolveFrom(_, _)
ResolveFrom(done, rest) ==
    IF rest = <<>> THEN done
    ELSE LET c == Head(rest)
             nd == done \o <<c>>
         IN  CASE c = ".." ->
                    ResolveFrom(IF done = <<>> THEN done
                                ELSE SubSeq(done, 1, Len(done) - 1), Tail(rest))
               [] c = "." -> ResolveFrom(done, Tail(rest))
               [] nd \in DOMAIN Symlinks -> ResolveFrom(<<>>, Symlinks[nd] \o Tail(rest))
               [] OTHER -> ResolveFrom(nd, Tail(rest))

Resolve(p) ==
    P(TRUE, ResolveFrom(<<>>, IF p.abs THEN p.parts ELSE Cwd.parts \o p.parts))

\* whether candidate.relative_to(home) returns (no ValueError): home is
\* candidate or one of its ancestors, component by component
IsRelativeTo(candidate, home) ==
    /\ Len(home.parts) <= Len(candidate.parts)
    /\ SubSeq(candidate.parts, 1, Len(home.parts)) = home.parts

(***************************************************************************)
(* get_install_path (lines 181-203) as a function of the adapter's state   *)
(* and the environment: whether it raises, the path it returns and the     *)
(* value of self._install_path after it.                                   *)
(***************************************************************************)
ConfiguredDefault(cfg) ==
    IF cfg = Unset THEN DefaultInstallPath ELSE cfg

\* if override: (the empty string is false)
OverrideGiven(override) == override # Unset /\ override # EmptyStr

InstallPathRaises(memo, cfg, override) ==
    /\ memo = NoPath
    /\ \/ ExpandUserRaises(ConfiguredDefault(cfg))
       \/ OverrideGiven(override) /\ ExpandUserRaises(override)

ComputeInstallPath(cfg, override) ==
    LET env_path == ExpandUser(ConfiguredDefault(cfg))
        candidate == Resolve(ExpandUser(override))
        home == Resolve(Home)
    IN  IF OverrideGiven(override) /\ IsRelativeTo(candidate, home)
        THEN candidate
        ELSE env_path

\* mutant of InstallPathValue: the path is computed at every call
InstallPathValueRecomputes(memo, cfg, override) == ComputeInstallPath(cfg, override)

InstallPathValue(memo, cfg, override) ==
    IF memo = NoPath THEN ComputeInstallPath(cfg, override) ELSE memo

(***************************************************************************)
(* Text.  A string is the sequence of its characters, so that matching,    *)
(* replacing and lower-casing are computed character by character.         *)
(***************************************************************************)
Uppers == <<"A", "B", "C", "D", "E", "F", "G", "H", "I", "J", "K", "L", "M", "N", "O", "P", "Q", "R", "S", "T", "U", "V", "W", "X", "Y", "Z">>
Lowers == <<"a", "b", "c", "d", "e", "f", "g", "h", "i", "j", "k", "l", "m", "n", "o", "p", "q", "r", "s", "t", "u", "v", "w", "x", "y", "z">>
Digits == <<"0", "1", "2", "3", "4", "5", "6", "7", "8", "9">>

\* str.lower(), and the folding re.IGNORECASE applies, on one character
LowerMap == [c \in {Uppers[i] : i \in 1..Len(Uppers)} |->
                Lowers[CHOOSE i \in 1..Len(Uppers) : Uppers[i] = c]]
Lower(c) == IF c \in DOMAIN LowerMap THEN LowerMap[c] ELSE c
LowerStr(t) == [i \in 1..Len(t) |-> Lower(t[i])]

\* \w and \s of the re module
WordChars ==
    {Uppers[i] : i \in 1..Len(Uppers)} \cup {Lowers[i] : i \in 1..Len(Lowers)}
        \cup {Digits[i] : i \in 1..Len(Digits)} \cup {"_"}
IsWord(c) == c \in WordChars
IsSpace(c) == c \in {" ", "\t", "\n"}

\* t has w at position i, exactly / up to letter case
HasAt(t, i, w) ==
    /\ i >= 1
    /\ i + Len(w) - 1 <= Len(t)
    /\ \A k \in 1..Len(w) : t[i + k - 1] = w[k]
HasAtCI(t, i, w) ==
    /\ i >= 1
    /\ i + Len(w) - 1 <= Len(t)
    /\ \A k \in 1..Len(w) : Lower(t[i + k - 1]) = Lower(w[k])

\* str.replace(old, new): the occurrences of old, left to right, none
\* overlapping another
\* the leftmost of the positions in hits, 0 when there is none
Leftmost(hits) ==
    IF hits = {} THEN 0 ELSE CHOOSE j \in hits : \A k \in hits : j <= k

\* str.replace from position i on: the text up to the leftmost occurrence,
\* the new text, and the rest replaced from the end of the occurrence on
RECURSIVE ReplaceFrom(_, _, _, _)
ReplaceFrom(t, i, old, new) ==
    LET j == Leftmost({p \in i..Len(t) : HasAt(t, p, old)})
    IN  IF j = 0 THEN SubSeq(t, i, Len(t))
        ELSE SubSeq(t, i, j - 1) \o new \o ReplaceFrom(t, j + Len(old), old, new)

Replace(t, old, new) == ReplaceFrom(t, 1, old, new)

(***************************************************************************)
(* The static tables (lines 41-67), in the order of the dict literals.     *)
(***************************************************************************)
\* _OPENCODE_TOOL_NAME_MAP: <<Claude Code name, OpenCode name>>
ToolNameMap ==
    << <<<<"B", "a", "s", "h">>,
         <<"b", "a", "s", "h">>>>,
       <<<<"R", "e", "a", "d">>,
         <<"r", "e", "a", "d">>>>,
       <<<<"W", "r", "i", "t", "e">>,
         <<"w", "r", "i", "t", "e">>>>,
       <<<<"E", "d", "i", "t">>,
         <<"e", "d", "i", "t">>>>,
       <<<<"L", "i", "s", "t">>,
         <<"l", "i", "s", "t">>>>,
       <<<<"G", "l", "o", "b">>,
         <<"g", "l", "o", "b">>>>,
       <<<<"G", "r", "e", "p">>,
         <<"g", "r", "e", "p">>>>,
       <<<<"W", "e", "b", "F", "e", "t", "c", "h">>,
         <<"w", "e", "b", "f", "e", "t", "c", "h">>>>,
       <<<<"T", "a", "s", "k">>,
         <<"t", "a", "s", "k">>>>,
       <<<<"T", "o", "d", "o", "W", "r", "i", "t", "e">>,
         <<"t", "o", "d", "o", "w", "r", "i", "t", "e">>>>,
       <<<<"T", "o", "d", "o", "R", "e", "a", "d">>,
         <<"t", "o", "d", "o", "r", "e", "a", "d">>>>,
       <<<<"M", "u", "l", "t", "i", "E", "d", "i", "t">>,
         <<"e", "d", "i", "t">>>>,
       <<<<"N", "o", "t", "e", "b", "o", "o", "k", "E", "d", "i", "t">>,
         <<"e", "d", "i", "t">>>>,
       <<<<"B", "r", "o", "w", "s", "e", "U", "R", "L">>,
         <<"w", "e", "b", "f", "e", "t", "c", "h">>>>,
       <<<<"F", "e", "t", "c", "h", "U", "R", "L">>,
         <<"w", "e", "b", "f", "e", "t", "c", "h">>>> >>

\* _OPENCODE_MODEL_MAP: <<shorthand, OpenCode model id>>
ModelMap ==
    << <<<<"o", "p", "u", "s">>,
         <<"a", "n", "t", "h", "r", "o", "p", "i", "c", "/", "c", "l", "a", "u", "d", "e", "-", "o", "p", "u", "s", "-", "4", "-", "5">>>>,
       <<<<"s", "o", "n", "n", "e", "t">>,
         <<"a", "n", "t", "h", "r", "o", "p", "i", "c", "/", "c", "l", "a", "u", "d", "e", "-", "s", "o", "n", "n", "e", "t", "-", "4", "-", "5">>>>,
       <<<<"h", "a", "i", "k", "u">>,
         <<"a", "n", "t", "h", "r", "o", "p", "i", "c", "/", "c", "l", "a", "u", "d", "e", "-", "h", "a", "i", "k", "u", "-", "4", "-", "5">>>>,
       <<<<"i", "n", "h", "e", "r", "i", "t">>,
         <<"i", "n", "h", "e", "r", "i", "t">>>> >>

S_tool == <<"t", "o", "o", "l">>
S_command == <<"c", "o", "m", "m", "a", "n", "d">>

(***************************************************************************)
(* _normalize_tool_references (lines 402-410): for each entry of the tool  *)
(* table, re.sub(rf'\b{name}\b(?=\s+tool|\s+command)', opencode_name,      *)
(* result, flags=re.IGNORECASE).                                           *)
(***************************************************************************)
\* the first position at or after i that holds no white space
RECURSIVE SkipSpace(_, _)
SkipSpace(t, i) == IF i <= Len(t) /\ IsSpace(t[i]) THEN SkipSpace(t, i + 1) ELSE i

\* the lookahead (?=\s+tool|\s+command) at position j
LookaheadAt(t, j) ==
    /\ j <= Len(t)
    /\ IsSpace(t[j])
    /\ \/ HasAtCI(t, SkipSpace(t, j), S_tool)
       \/ HasAtCI(t, SkipSpace(t, j), S_command)

\* \b between positions i - 1 and i: one side a word character, the other not
BoundaryAt(t, i) ==
    (i > 1 /\ IsWord(t[i - 1])) # (i <= Len(t) /\ IsWord(t[i]))

\* mutant of ToolRefAt: the lookahead left out
ToolRefAtAnywhere(t, i, name) ==
    /\ HasAtCI(t, i, name)
    /\ BoundaryAt(t, i)
    /\ BoundaryAt(t, i + Len(name))

\* the pattern matches at position i
ToolRefAt(t, i, name) ==
    /\ HasAtCI(t, i, name)
    /\ BoundaryAt(t, i)
    /\ BoundaryAt(t, i + Len(name))
    /\ LookaheadAt(t, i + Len(name))

\* re.sub from position i on: the text up to the leftmost match, the
\* OpenCode name, and the rest substituted from the end of the match on
RECURSIVE SubFrom(_, _, _, _)
SubFrom(t, i, name, opencode_name) ==
    LET j == Leftmost({p \in i..Len(t) : ToolRefAt(t, p, name)})
    IN  IF j = 0 THEN SubSeq(t, i, Len(t))
        ELSE SubSeq(t, i, j - 1) \o opencode_name
                 \o SubFrom(t, j + Len(name), name, opencode_name)

RECURSIVE NormalizeFrom(_, _)
NormalizeFrom(t, k) ==
    IF k > Len(ToolNameMap) THEN t
    ELSE LET result == SubFrom(t, 1, ToolNameMap[k][1], ToolNameMap[k][2])
         IN  IF result = t THEN NormalizeFrom(t, k + 1)
             ELSE NormalizeFrom(result, k + 1)

NormalizeToolReferences(t) == NormalizeFrom(t, 1)

(***************************************************************************)
(* transform_hook (lines 174-179): four str.replace calls, in this order.  *)
(***************************************************************************)
S_BracedRoot == <<"$", "{", "C", "L", "A", "U", "D", "E", "_", "P", "L", "U", "G", "I", "N", "_", "R", "O", "O", "T", "}">>
S_BareRoot == <<"$", "C", "L", "A", "U", "D", "E", "_", "P", "L", "U", "G", "I", "N", "_", "R", "O", "O", "T">>
S_HooksDir == <<"/", "h", "o", "o", "k", "s", "/">>
S_HookPrefix == <<"b", "a", "s", "h", " ", "~", "/", ".", "c", "o", "n", "f", "i", "g", "/", "o", "p", "e", "n", "c", "o", "d", "e", "/", "h", "o", "o", "k", "/">>
S_ConfigDir == <<"~", "/", ".", "c", "o", "n", "f", "i", "g", "/", "o", "p", "e", "n", "c", "o", "d", "e">>

\* mutant of HookReplace: the root-only substitutions made first
HookReplaceRootFirst(t) ==
    Replace(Replace(Replace(Replace(t,
        S_BracedRoot, S_ConfigDir),
        S_BareRoot, S_ConfigDir),
        S_BracedRoot \o S_HooksDir, S_HookPrefix),
        S_BareRoot \o S_HooksDir, S_HookPrefix)

HookReplace(t) ==
    Replace(Replace(Replace(Replace(t,
        S_BracedRoot \o S_HooksDir, S_HookPrefix),
        S_BareRoot \o S_HooksDir, S_HookPrefix),
        S_BracedRoot, S_ConfigDir),
        S_BareRoot, S_ConfigDir)

(***************************************************************************)
(* Metadata (frontmatter).  A value is [k, v]: a string (v its             *)
(* characters), an integer (v its digits), a boolean, null, a list (v the  *)
(* sequence of its values) or a mapping (v the sequence of its <<key,      *)
(* value>> pairs in insertion order, as a Python dict keeps them; a key is *)
(* a value of a hashable kind).  The metadata of a document maps each      *)
(* top-level field name to its value.                                      *)
(***************************************************************************)
Str(t) == [k |-> "str", v |-> t]
Number(digits) == [k |-> "int", v |-> digits]
Bool(b) == [k |-> "bool", v |-> b]
Null == [k |-> "null", v |-> <<>>]
List(vals) == [k |-> "list", v |-> vals]
Map(pairs) == [k |-> "map", v |-> pairs]

S_None == <<"N", "o", "n", "e">>
S_True == <<"T", "r", "u", "e">>
S_False == <<"F", "a", "l", "s", "e">>
S_anthropic == <<"a", "n", "t", "h", "r", "o", "p", "i", "c">>
S_inherit == <<"i", "n", "h", "e", "r", "i", "t">>
S_subagent == <<"s", "u", "b", "a", "g", "e", "n", "t">>
S_primary == <<"p", "r", "i", "m", "a", "r", "y">>

\* str(value) of a scalar
PyStr(val) ==
    CASE val.k = "null" -> S_None
      [] val.k = "bool" -> IF val.v THEN S_True ELSE S_False
      [] OTHER -> val.v

\* a list or a dict cannot be hashed: using one as a dict key raises TypeError
Unhashable(val) == val.k \in {"list", "map"}

\* dict.get on a table of <<key, value>> pairs: the first pair with the key
HasKey(table, key) == \E i \in 1..Len(table) : table[i][1] = key
Lookup(table, key) == table[CHOOSE i \in 1..Len(table) : table[i][1] = key][2]

\* mutant of DictSet: a key that is there keeps its value
DictSetKeepsFirst(pairs, key, val) ==
    IF HasKey(pairs, key) THEN pairs ELSE Append(pairs, <<key, val>>)

\* d[key] = val on an insertion-ordered dict: an existing key keeps its place
DictSet(pairs, key, val) ==
    IF HasKey(pairs, key)
    THEN [i \in 1..Len(pairs) |-> IF pairs[i][1] = key THEN <<key, val>> ELSE pairs[i]]
    ELSE Append(pairs, <<key, val>>)

\* the fields of fm other than those of drop (result.pop(field, None))
Without(fm, drop) == [f \in DOMAIN fm \ drop |-> fm[f]]

(***************************************************************************)
(* _transform_tools_for_opencode (lines 357-388).                          *)
(***************************************************************************)
\* self._OPENCODE_TOOL_NAME_MAP.get(tool, tool.lower())
MappedTool(tool) ==
    IF HasKey(ToolNameMap, tool) THEN Lookup(ToolNameMap, tool) ELSE LowerStr(tool)

\* the dict branch: the keys that are strings, renamed, in input order
RECURSIVE ToolsDictFrom(_, _, _)
ToolsDictFrom(pairs, i, normalized) ==
    IF i > Len(pairs) THEN normalized
    ELSE LET tool == pairs[i][1]
             enabled == pairs[i][2]
         IN  IF tool.k = "str"
             THEN ToolsDictFrom(pairs, i + 1,
                      DictSet(normalized, Str(MappedTool(tool.v)), enabled))
             ELSE ToolsDictFrom(pairs, i + 1, normalized)

\* the list branch: a mapped name is appended unless it is in the list
RECURSIVE ToolsListFrom(_, _, _)
ToolsListFrom(tools, i, normalized_list) ==
    IF i > Len(tools) THEN normalized_list
    ELSE LET tool == tools[i]
         IN  IF tool.k = "str"
             THEN LET mapped == Str(MappedTool(tool.v))
                  IN  IF \E j \in 1..Len(normalized_list) : normalized_list[j] = mapped
                      THEN ToolsListFrom(tools, i + 1, normalized_list)
                      ELSE ToolsListFrom(tools, i + 1, Append(normalized_list, mapped))
             ELSE ToolsListFrom(tools, i + 1, Append(normalized_list, tool))

TransformToolsForOpencode(tools) ==
    CASE tools.k = "map" -> Map(ToolsDictFrom(tools.v, 1, <<>>))
      [] tools.k = "list" -> List(ToolsListFrom(tools.v, 1, <<>>))
      [] OTHER -> tools

(***************************************************************************)
(* _transform_frontmatter (lines 281-293) and its agent and command        *)
(* variants (lines 315-327, 345-355).                                      *)
(***************************************************************************)
\* model in self._OPENCODE_MODEL_MAP raises for a model that cannot be hashed
FrontmatterRaises(fm) == "model" \in DOMAIN fm /\ Unhashable(fm["model"])

HasSlash(t) == \E i \in 1..Len(t) : t[i] = "/"

\* a model rewrite that prefixes whatever is not in the table or 'inherit'
TransformModelAlwaysPrefixes(model) ==
    IF model.k = "str" /\ HasKey(ModelMap, model.v)
    THEN Str(Lookup(ModelMap, model.v))
    ELSE IF model # Str(S_inherit)
    THEN Str(S_anthropic \o <<"/">> \o PyStr(model))
    ELSE model

TransformModel(model) ==
    IF model.k = "str" /\ HasKey(ModelMap, model.v)
    THEN Str(Lookup(ModelMap, model.v))
    ELSE IF ~HasSlash(PyStr(model)) /\ model # Str(S_inherit)
    THEN Str(S_anthropic \o <<"/">> \o PyStr(model))
    ELSE model

TransformFrontmatter(fm) ==
    [f \in DOMAIN fm |->
        CASE f = "model" -> TransformModel(fm[f])
          [] f = "tools" -> TransformToolsForOpencode(fm[f])
          [] OTHER -> fm[f]]

AgentDropList == {"version", "last_updated", "changelog", "output_schema"}
CommandDropList == {"name", "version", "type", "tags"}

TransformAgentFrontmatter(fm) ==
    LET result == TransformFrontmatter(fm)
        popped == Without(result, {"type"})
        typed ==
            IF "type" \in DOMAIN result
            THEN IF result["type"] \in {Str(S_subagent), Str(S_primary)}
                    /\ "mode" \notin DOMAIN popped
                 THEN popped @@ ("mode" :> result["type"])
                 ELSE popped
            ELSE result
    IN  Without(typed, AgentDropList)

TransformCommandFrontmatter(fm) ==
    LET result == TransformFrontmatter(fm)
        renamed ==
            IF "args" \in DOMAIN result /\ "argument-hint" \notin DOMAIN result
            THEN Without(result, {"args"}) @@ ("argument-hint" :> result["args"])
            ELSE IF "arguments" \in DOMAIN result /\ "argument-hint" \notin DOMAIN result
            THEN Without(result, {"arguments"}) @@ ("argument-hint" :> result["arguments"])
            ELSE result
    IN  Without(renamed, CommandDropList)

(***************************************************************************)
(* Documents and the codec of the base adapter.  A document is its         *)
(* metadata block, if it has one, and its body; a document without a block *)
(* is its body, the whole text.                                            *)
(*   extract_frontmatter(content) gives (metadata, body): the empty        *)
(*     metadata and the whole text when there is no block                  *)
(*   create_frontmatter(metadata) + "\n" + body is the document with that  *)
(*     block and that body                                                 *)
(***************************************************************************)
PlainDoc(body) == [block |-> FALSE, fm |-> EmptyMap, body |-> body]
BlockDoc(fm, body) == [block |-> TRUE, fm |-> fm, body |-> body]

ExtractFrontmatter(content) ==
    IF content.block THEN <<content.fm, content.body>> ELSE <<EmptyMap, content.body>>

CreateFrontmatter(fm, body) == BlockDoc(fm, body)

(***************************************************************************)
(* transform_skill, transform_agent, transform_command (lines 92-101,      *)
(* 120-129, 148-157) and transform_hook (lines 174-179): whether the call  *)
(* raises and the document it returns.                                     *)
(***************************************************************************)
Returned(content) == [raised |-> FALSE, doc |-> content]
Raised == [raised |-> TRUE, doc |-> PlainDoc(<<>>)]

\* the body of the three methods, given the kind's field rewrite as its result
TransformWith(content, rewritten) ==
    LET frontmatter == ExtractFrontmatter(content)[1]
        body == NormalizeToolReferences(ExtractFrontmatter(content)[2])
    IN  IF frontmatter # EmptyMap /\ FrontmatterRaises(frontmatter) THEN Raised
        ELSE IF frontmatter # EmptyMap /\ rewritten # EmptyMap
        THEN Returned(CreateFrontmatter(rewritten, body))
        ELSE Returned(PlainDoc(body))

TransformSkillResult(content) ==
    TransformWith(content, TransformFrontmatter(ExtractFrontmatter(content)[1]))

TransformAgentResult(content) ==
    TransformWith(content, TransformAgentFrontmatter(ExtractFrontmatter(content)[1]))

TransformCommandResult(content) ==
    TransformWith(content, TransformCommandFrontmatter(ExtractFrontmatter(content)[1]))

\* a transform_hook that leaves the text alone once the install path is memoized
TransformHookResultMemo(content) ==
    IF install_path = NoPath THEN Returned(PlainDoc(HookReplace(content.body)))
    ELSE Returned(content)

TransformHookResult(content) == Returned(PlainDoc(HookReplace(content.body)))

(***************************************************************************)
(* The file system holds, for each directory the adapter may be pointed    *)
(* at, whether the directory exists, its opencode.json and its             *)
(* opencode.jsonc.                                                         *)
(***************************************************************************)
DefaultDir == P(TRUE, <<"home", "user", ".config", "opencode">>)
Dirs == {DefaultDir}

NoDir == [dir |-> FALSE, json |-> NoFile, jsonc |-> NoFile]
DirWith(file) == [dir |-> TRUE, json |-> file, jsonc |-> NoFile]
\* a directory that holds an opencode.jsonc too
DirWithBoth(file, jsonc) == [dir |-> TRUE, json |-> file, jsonc |-> jsonc]

\* what mkdir, open and write can do: all succeed, mkdir fails (the directory
\* is missing and cannot be made), open fails (the file is left as it was),
\* write fails after open truncated the file
IoOutcomes == {"ok", "mkdir_fail", "open_fail", "write_fail"}

\* lines 493-502: config_path.parent.mkdir(parents=True, exist_ok=True), then
\* config_path.write_text(json.dumps(existing_config, indent=2))
WriteResult(d, io) == io = "ok"

\* mutant of WriteConfig: a file that is there is not written over
WriteConfigKeepsFile(d, cfg, io) ==
    CASE io = "ok" -> IF d.json.exists THEN d ELSE DirWith(JsonDumps(cfg))
      [] io = "mkdir_fail" -> d
      [] io = "open_fail" -> [d EXCEPT !.dir = TRUE]
      [] OTHER -> DirWith(TextFile(0, "blank", EmptyCfg))

\* mutant of WriteConfig: the file get_config_path names is written
WriteConfigAtConfigPath(d, cfg, io) ==
    CASE io = "ok" -> IF d.jsonc.exists
                      THEN [d EXCEPT !.jsonc = JsonDumps(cfg)]
                      ELSE [d EXCEPT !.dir = TRUE, !.json = JsonDumps(cfg)]
      [] io = "mkdir_fail" -> d
      [] io = "open_fail" -> [d EXCEPT !.dir = TRUE]
      [] OTHER -> [d EXCEPT !.dir = TRUE, !.json = TextFile(0, "blank", EmptyCfg)]

WriteConfig(d, cfg, io) ==
    CASE io = "ok" -> [d EXCEPT !.dir = TRUE, !.json = JsonDumps(cfg)]
      [] io = "mkdir_fail" -> d
      [] io = "open_fail" -> [d EXCEPT !.dir = TRUE]
      [] OTHER -> [d EXCEPT !.dir = TRUE, !.json = TextFile(0, "blank", EmptyCfg)]

\* base_path = install_path or self.get_install_path()
BasePathRaises(ip, memo, cfg, override) ==
    ip = NoPath /\ InstallPathRaises(memo, cfg, override)

BasePath(ip, memo, cfg, override) ==
    IF ip = NoPath THEN InstallPathValue(memo, cfg, override) ELSE ip

(***************************************************************************)
(* merge_hooks_to_config (lines 440-502) as a whole: the outcome of a call *)
(* with arguments hc, dry_run, ip in file system f, under io.              *)
(*   result   "true", "false" or "raised" (an exception leaves the call)   *)
(*   base     base_path (NoPath when get_install_path raised)              *)
(*   fs, memo the file system and self._install_path after the call        *)
(***************************************************************************)
MergeOutcome(f, memo, cfg, override, hc, dry_run, ip, io) ==
    IF BasePathRaises(ip, memo, cfg, override)
    THEN [result |-> "raised", base |-> NoPath, fs |-> f, memo |-> memo]
    ELSE
    LET base == BasePath(ip, memo, cfg, override)
        memo2 == IF ip = NoPath THEN base ELSE memo
        existing == ReadExisting(f[base].json)
    IN  IF MergeRaises(existing, hc)
        THEN [result |-> "raised", base |-> base, fs |-> f, memo |-> memo2]
        ELSE IF dry_run
        THEN [result |-> "true", base |-> base, fs |-> f, memo |-> memo2]
        ELSE [result |-> IF WriteResult(f[base], io) THEN "true" ELSE "false",
              base |-> base,
              fs |-> [f EXCEPT ![base] = WriteConfig(f[base], MergedConfig(existing, hc), io)],
              memo |-> memo2]

(***************************************************************************)
(* The inputs the model draws from.                                        *)
(***************************************************************************)
EventNames == {"PreToolUse", "Stop"}

\* the event |-> entries mappings given to a merge
InEvents ==
    { EmptyMap,
      ("PreToolUse" :> <<"X">>),
      ("PreToolUse" :> <<"X", "Y">>),
      ("PreToolUse" :> <<"X">>) @@ ("Stop" :> <<"Y">>) }

\* hooks_config: each mapping bare and wrapped in a "hooks" key
InConfigs == {Bare(ev) : ev \in InEvents} \cup {Wrapped(ev) : ev \in InEvents}

Theme == ("theme" :> "dark")
HeldY == ("PreToolUse" :> ListVal(<<"Y">>))

\* the opencode.json files a run may start with
InitFiles ==
    { NoFile,
      TextFile(0, "blank", EmptyCfg),
      TextFile(1, "blank", EmptyCfg),
      TextFile(0, "json", EmptyCfg),
      TextFile(0, "json", DictCfg(Theme, HooksAbsent)),
      TextFile(1, "json", DictCfg(Theme, HooksDict(HeldY))),
      TextFile(0, "json", DictCfg(EmptyMap, HooksDict(HeldY @@ ("Stop" :> ListVal(<<"X">>))))),
      TextFile(0, "loose", DictCfg(Theme, HooksDict(HeldY))),
      TextFile(0, "json", NonDictCfg("list")),
      TextFile(0, "json", NonDictCfg("listWithHooks")),
      TextFile(0, "json", NonDictCfg("null")),
      TextFile(0, "json", DictCfg(Theme, HooksList)),
      TextFile(0, "json", DictCfg(EmptyMap, HooksNull)),
      TextFile(0, "json", DictCfg(EmptyMap, HooksDict(("PreToolUse" :> StrVal)))) }

InitDirs == {NoDir} \cup {DirWith(file) : file \in InitFiles}

\* the values of OPENCODE_CONFIG_PATH in the merge specification
MergeOverrides ==
    { Unset,
      P(TRUE, <<"etc", "oc">>),
      P(FALSE, <<"~nosuchuser", "oc">>) }

\* the longest list of a configuration (the bound of the model)
MaxOf(S) == CHOOSE n \in S : \A m \in S : m <= n
LongestList(cfg) ==
    MaxOf({0} \cup {Len(cfg.hooks.ev[e].items) : e \in DOMAIN cfg.hooks.ev})
WithinBound(f, n) == \A d \in DOMAIN f : LongestList(f[d].json.val) <= n

(***************************************************************************)
(* The calls, as actions on the adapter and the file system.               *)
(***************************************************************************)
NoCall ==
    [op |-> "none", hc |-> EmptyMap, dry_run |-> FALSE, ip |-> NoPath, io |-> "ok",
     result |-> "none", base |-> NoPath, pre |-> EmptyMap, memo |-> NoPath,
     env |-> Unset, config |-> Unset]

\* merge_hooks_to_config(hooks_config, dry_run, install_path)
MergeHooks(hc, dry_run, ip, io) ==
    /\ dry_run => io = "ok"
    /\ \E o \in {MergeOutcome(fs, install_path, config, env, hc, dry_run, ip, io)} :
        /\ io = "mkdir_fail" => (o.base # NoPath /\ ~fs[o.base].dir)
        /\ fs' = o.fs
        /\ install_path' = o.memo
        /\ last' = [op |-> "merge_hooks_to_config", hc |-> hc, dry_run |-> dry_run,
                    ip |-> ip, io |-> io, result |-> o.result, base |-> o.base,
                    pre |-> fs, memo |-> install_path, env |-> env, config |-> config]
        /\ UNCHANGED <<env, config>>

\* get_install_path()
GetInstallPath ==
    /\ IF InstallPathRaises(install_path, config, env)
       THEN /\ last' = [NoCall EXCEPT !.op = "get_install_path", !.result = "raised",
                                      !.pre = fs, !.memo = install_path,
                                      !.env = env, !.config = config]
            /\ UNCHANGED install_path
       ELSE LET path == InstallPathValue(install_path, config, env)
            IN  /\ install_path' = path
                /\ last' = [NoCall EXCEPT !.op = "get_install_path", !.result = "returned",
                                          !.base = path, !.pre = fs, !.memo = install_path,
                                          !.env = env, !.config = config]
    /\ UNCHANGED <<fs, env, config>>

\* get_config_path() (lines 432-438): the name of the file it returns
ConfigFileName(d) == IF d.jsonc.exists THEN "opencode.jsonc" ELSE "opencode.json"

GetConfigPath ==
    /\ IF InstallPathRaises(install_path, config, env)
       THEN /\ last' = [NoCall EXCEPT !.op = "get_config_path", !.result = "raised",
                                      !.pre = fs, !.memo = install_path,
                                      !.env = env, !.config = config]
            /\ UNCHANGED install_path
       ELSE LET path == InstallPathValue(install_path, config, env)
            IN  /\ install_path' = path
                /\ last' = [NoCall EXCEPT !.op = "get_config_path",
                                          !.result = ConfigFileName(fs[path]),
                                          !.base = path, !.pre = fs, !.memo = install_path,
                                          !.env = env, !.config = config]
    /\ UNCHANGED <<fs, env, config>>

\* os.environ["OPENCODE_CONFIG_PATH"] is set, changed or removed
SetOverride(o) ==
    /\ o # env
    /\ env' = o
    /\ UNCHANGED <<fs, config, install_path, last>>

\* the adapter's config is given another install_path
SetConfig(c) ==
    /\ c # config
    /\ config' = c
    /\ UNCHANGED <<fs, env, install_path, last>>

(***************************************************************************)
(* The merge specification: one adapter, calls one after the other.        *)
(***************************************************************************)
Init ==
    /\ fs \in [Dirs -> InitDirs]
    /\ env \in MergeOverrides
    /\ config = Unset
    /\ install_path = NoPath
    /\ last = NoCall
    /\ hist = <<>>
    /\ procs = <<>>

CallMerge ==
    \E hc \in InConfigs, dry_run \in BOOLEAN, ip \in {NoPath, DefaultDir}, io \in IoOutcomes :
        /\ MergeHooks(hc, dry_run, ip, io)
        /\ WithinBound(fs', MaxLen)
        /\ UNCHANGED <<hist, procs>>

CallGetInstallPath == GetInstallPath /\ UNCHANGED <<hist, procs>>

ChangeOverride == \E o \in MergeOverrides : SetOverride(o) /\ UNCHANGED <<hist, procs>>

Next == CallMerge \/ CallGetInstallPath \/ ChangeOverride

Spec == Init /\ [][Next]_vars

(***************************************************************************)
(* The repeated-merge specification: the same hooks_config is merged into  *)
(* the same file again and again.  hist follows the run of successive      *)
(* calls that returned true: the file the run started from, the            *)
(* hooks_config, and the number n of calls in the run.                     *)
(***************************************************************************)
InitRepeat ==
    /\ fs \in [Dirs -> InitDirs]
    /\ env = Unset
    /\ config = Unset
    /\ install_path = NoPath
    /\ last = NoCall
    /\ \E hc \in InConfigs : hist = [start |-> fs[DefaultDir].json, hc |-> hc, n |-> 0]
    /\ procs = <<>>

RepeatMerge ==
    \E ip \in {NoPath, DefaultDir}, io \in IoOutcomes :
        /\ hist.n < MaxRepeat
        /\ MergeHooks(hist.hc, FALSE, ip, io)
        /\ WithinBound(fs', MaxRepeatLen)
        /\ hist' = IF last'.result = "true"
                   THEN [hist EXCEPT !.n = @ + 1]
                   ELSE [hist EXCEPT !.start = fs'[DefaultDir].json, !.n = 0]
        /\ UNCHANGED procs

NextRepeat == RepeatMerge

SpecRepeat == InitRepeat /\ [][NextRepeat]_vars

(***************************************************************************)
(* The concurrent specification: two callers run merge_hooks_to_config on  *)
(* the same file at once (install_path given, dry_run false).  Each merge  *)
(* is two steps, as nothing in lines 463-499 locks the file: the read and  *)
(* the merge in memory (463-487), then the write (493-502).  hist keeps    *)
(* the file the run started from and the order of the steps.               *)
(***************************************************************************)
Callers == {1, 2}

ConcConfigs == {Bare(ev) : ev \in InEvents}

InitConc ==
    /\ fs \in [Dirs -> InitDirs]
    /\ env = Unset
    /\ config = Unset
    /\ install_path = NoPath
    /\ last = NoCall
    /\ hist = [start |-> fs[DefaultDir].json, steps |-> <<>>]
    /\ procs \in [Callers -> [pc : {"start"}, hc : ConcConfigs,
                              existing_config : {EmptyCfg}, result : {"none"}]]

\* lines 463-487 of caller p
ReadAndMerge(p) ==
    /\ procs[p].pc = "start"
    /\ LET existing == ReadExisting(fs[DefaultDir].json)
       IN  IF MergeRaises(existing, procs[p].hc)
           THEN procs' = [procs EXCEPT ![p].pc = "done", ![p].result = "raised"]
           ELSE procs' = [procs EXCEPT ![p].pc = "merged",
                             ![p].existing_config = MergedConfig(existing, procs[p].hc)]
    /\ hist' = [hist EXCEPT !.steps = Append(@, <<"read", p>>)]
    /\ UNCHANGED <<fs, env, config, install_path, last>>

\* lines 493-502 of caller p
WriteBack(p, io) ==
    /\ procs[p].pc = "merged"
    /\ io = "mkdir_fail" => ~fs[DefaultDir].dir
    /\ fs' = [fs EXCEPT ![DefaultDir] = WriteConfig(@, procs[p].existing_config, io)]
    /\ procs' = [procs EXCEPT ![p].pc = "done",
                    ![p].result = IF WriteResult(fs[DefaultDir], io) THEN "true" ELSE "false"]
    /\ hist' = [hist EXCEPT !.steps = Append(@, <<"write", p>>)]
    /\ UNCHANGED <<env, config, install_path, last>>

CallerReads == \E p \in Callers : ReadAndMerge(p)
CallerWrites == \E p \in Callers, io \in IoOutcomes : WriteBack(p, io)

NextConc == CallerReads \/ CallerWrites

SpecConc == InitConc /\ [][NextConc]_vars

(***************************************************************************)
(* The install-path specification: get_install_path is called while the    *)
(* environment override and the adapter's config change.  hist keeps the   *)
(* number of calls made and the paths they returned.                       *)
(***************************************************************************)
\* the values of OPENCODE_CONFIG_PATH
Overrides ==
    { Unset,
      EmptyStr,
      P(FALSE, <<"~", "oc">>),                          \* ~/oc
      P(TRUE, <<"home", "user">>),                      \* /home/user
      P(TRUE, <<"home", "userX", "oc">>),               \* /home/userX/oc
      P(TRUE, <<"home", "user", "..", "userX">>),       \* /home/user/../userX
      P(TRUE, <<"home", "user", "link", "oc">>),        \* /home/user/link/oc
      P(TRUE, <<"etc", "oc">>),                         \* /etc/oc
      P(FALSE, <<"oc">>),                               \* oc
      P(FALSE, <<"~root", "oc">>),                      \* ~root/oc
      P(FALSE, <<"~nosuchuser", "oc">>) }               \* ~nosuchuser/oc

\* the install_path entries of the adapter's config
Configs == {Unset, P(TRUE, <<"opt", "ring">>), P(FALSE, <<"~", "ring">>)}

InitPath ==
    /\ fs = [d \in Dirs |-> NoDir]
    /\ env \in Overrides
    /\ config \in Configs
    /\ install_path = NoPath
    /\ last = NoCall
    /\ hist = [calls |-> 0, returned |-> {}]
    /\ procs = <<>>

PathCall ==
    /\ hist.calls < MaxCalls
    /\ GetInstallPath
    /\ hist' = [calls |-> hist.calls + 1,
                returned |-> IF last'.result = "returned"
                             THEN hist.returned \cup {last'.base}
                             ELSE hist.returned]
    /\ UNCHANGED procs

PathChangeOverride == \E o \in Overrides : SetOverride(o) /\ UNCHANGED <<hist, procs>>

PathChangeConfig == \E c \in Configs : SetConfig(c) /\ UNCHANGED <<hist, procs>>

NextPath == PathCall \/ PathChangeOverride \/ PathChangeConfig

SpecPath == InitPath /\ [][NextPath]_vars

(***************************************************************************)
(* The transform specification: a document is drawn and the four transform *)
(* operations are applied to it.  hist keeps the document drawn, last the  *)
(* operation applied and its outcome.                                      *)
(***************************************************************************)
\* pieces of body text that make and break tool references
ToolWords == {<<"B", "a", "s", "h">>, <<"W", "e", "b", "F", "e", "t", "c", "h">>, <<" ">>, <<"t", "o", "o", "l">>, <<"c", "o", "m", "m", "a", "n", "d">>, <<"t", "o", "o", "l", "b", "o", "x">>, <<"x">>}
\* pieces of hook text that make and break placeholders
HookWords == {<<"$", "{", "C", "L", "A", "U", "D", "E", "_", "P", "L", "U", "G", "I", "N", "_", "R", "O", "O", "T", "}">>, <<"$", "C", "L", "A", "U", "D", "E", "_", "P", "L", "U", "G", "I", "N", "_", "R", "O", "O", "T">>, <<"/", "h", "o", "o", "k", "s", "/">>, <<"/", "x">>}

\* the texts made of at most n pieces of words
RECURSIVE Texts(_, _)
Texts(words, n) ==
    IF n = 0 THEN {<<>>}
    ELSE Texts(words, n - 1) \cup {t \o w : t \in Texts(words, n - 1), w \in words}

Bodies == Texts(ToolWords, MaxChunks) \cup Texts(HookWords, MaxChunks)

\* metadata blocks
Metadatas ==
    { EmptyMap,
      "name" :> Str(<<"x">>),
      "model" :> Str(<<"s", "o", "n", "n", "e", "t">>),
      ("model" :> Str(<<"x">>)) @@ ("tools" :> List(<<Str(<<"B", "a", "s", "h">>), Str(<<"b", "a", "s", "h">>), Number(<<"1">>)>>)),
      ("model" :> Str(<<"x", "/", "x">>)) @@ ("type" :> Str(<<"s", "u", "b", "a", "g", "e", "n", "t">>)) @@ ("version" :> Number(<<"1">>)),
      ("model" :> Str(<<"i", "n", "h", "e", "r", "i", "t">>)) @@ ("args" :> Str(<<"x">>)) @@ ("name" :> Str(<<"x">>)),
      ("tools" :> Map(<<<<Str(<<"B", "a", "s", "h">>), Bool(TRUE)>>, <<Str(<<"B", "A", "S", "H">>), Bool(FALSE)>>>>)),
      "model" :> List(<<Str(<<"s", "o", "n", "n", "e", "t">>)>>),
      "version" :> Number(<<"1">>),
      ("name" :> Str(<<"x">>)) @@ ("tags" :> List(<<Str(<<"x">>)>>)) }

(***************************************************************************)
(* Metadata by family: the values a block can give to model, to tools, to  *)
(* the fields of the agent rules and to those of the command rules.        *)
(***************************************************************************)
\* the mark of a field a block does not have, and the metadata of the fields
\* that a choice gives a value
Absent == [k |-> "absent", v |-> <<>>]
Present(choice) == [f \in {g \in DOMAIN choice : choice[g] # Absent} |-> choice[f]]

\* the sequences of at most n elements of S
SeqsUpTo(S, n) == UNION {[1..len -> S] : len \in 0..n}

ModelValues ==
    { Str(<<"o", "p", "u", "s">>), Str(<<"s", "o", "n", "n", "e", "t">>), Str(<<"h", "a", "i", "k", "u">>), Str(<<"i", "n", "h", "e", "r", "i", "t">>),
      Str(<<"x">>), Str(<<"x", "/", "x">>), Str(<<"S", "o", "n", "n", "e", "t">>), Str(<<>>),
      Number(<<"1">>), Bool(TRUE), Null,
      List(<<>>), List(<<Str(<<"s", "o", "n", "n", "e", "t">>)>>), Map(<<<<Str(<<"x">>), Str(<<"x">>)>>>>) }

ModelMetadatas ==
    {("model" :> model) @@ other :
        model \in ModelValues, other \in {EmptyMap, "description" :> Str(<<"x">>)}}

\* entries of a tools list and keys of a tools mapping
ToolEntries == {Str(<<"B", "a", "s", "h">>), Str(<<"b", "a", "s", "h">>), Str(<<"E", "d", "i", "t">>), Str(<<"M", "u", "l", "t", "i", "E", "d", "i", "t">>), Str(<<"m", "u", "l", "t", "i", "e", "d", "i", "t">>), Number(<<"1">>)}
ToolKeys == {Str(<<"B", "a", "s", "h">>), Str(<<"b", "a", "s", "h">>), Str(<<"X">>), Number(<<"1">>)}

ToolsLists == {List(tools) : tools \in SeqsUpTo(ToolEntries, MaxTools)}

\* a mapping has each key once
ToolsMaps ==
    {Map(pairs) : pairs \in
        {ps \in SeqsUpTo(ToolKeys \X {Bool(TRUE), Bool(FALSE)}, MaxTools) :
            \A i, j \in 1..Len(ps) : ps[i][1] = ps[j][1] => i = j}}

ToolsValues == ToolsLists \cup ToolsMaps \cup {Str(<<"B", "a", "s", "h">>), Null}

ToolsMetadatas == {"tools" :> tools : tools \in ToolsValues}

AgentMetadatas ==
    {Present(choice) : choice \in
        [type : {Absent, Str(<<"s", "u", "b", "a", "g", "e", "n", "t">>), Str(<<"p", "r", "i", "m", "a", "r", "y">>), Str(<<"x">>), List(<<Str(<<"s", "u", "b", "a", "g", "e", "n", "t">>)>>)},
         mode : {Absent, Str(<<"a", "l", "l">>), Str(<<"p", "r", "i", "m", "a", "r", "y">>)},
         version : {Absent, Number(<<"1">>)},
         last_updated : {Absent, Str(<<"x">>)},
         changelog : {Absent, List(<<Str(<<"x">>)>>)},
         output_schema : {Absent, Map(<<<<Str(<<"x">>), Str(<<"x">>)>>>>)},
         description : {Absent, Str(<<"x">>)}]}

CommandMetadatas ==
    {Present(choice) @@ hint :
        choice \in
            [args : {Absent, Str(<<"a">>)},
             arguments : {Absent, Str(<<"b">>)},
             name : {Absent, Str(<<"x">>)},
             version : {Absent, Number(<<"1">>)},
             type : {Absent, Str(<<"x">>)},
             tags : {Absent, List(<<Str(<<"x">>)>>)},
             description : {Absent, Str(<<"x">>)}],
        hint \in {EmptyMap, "argument-hint" :> Str(<<"h">>), "argument-hint" :> Null}}

\* a model that cannot be hashed, or one that can, with the fields of the
\* other rules
MixedMetadatas ==
    {("model" :> model) @@ other :
        model \in {Str(<<"s", "o", "n", "n", "e", "t">>), List(<<Str(<<"s", "o", "n", "n", "e", "t">>)>>)},
        other \in
            { "tools" :> Map(<<<<Str(<<"B", "a", "s", "h">>), Bool(TRUE)>>>>),
              "tools" :> List(<<Str(<<"B", "a", "s", "h">>)>>),
              "type" :> Str(<<"s", "u", "b", "a", "g", "e", "n", "t">>),
              "args" :> Str(<<"a">>),
              "name" :> Str(<<"x">>),
              "description" :> Str(<<"x">>) }}

FieldMetadatas ==
    ModelMetadatas \cup ToolsMetadatas \cup AgentMetadatas
        \cup CommandMetadatas \cup MixedMetadatas

BlockBodies == {<<>>, <<"B", "a", "s", "h", " ", "t", "o", "o", "l">>, <<"B", "a", "s", "h">>}

Documents ==
    {PlainDoc(body) : body \in Bodies}
        \cup {BlockDoc(fm, body) : fm \in Metadatas, body \in BlockBodies}
        \cup {BlockDoc(fm, <<>>) : fm \in FieldMetadatas}

\* the record of a transform call, and that of a call of the tools rewrite
\* (value is the tools value it returned)
TransformCall(op, result) ==
    [op |-> op, raised |-> result.raised, doc |-> result.doc, value |-> Null]
ToolsCall(value) ==
    [op |-> "_transform_tools_for_opencode", raised |-> FALSE,
     doc |-> PlainDoc(<<>>), value |-> value]

InitTransform ==
    /\ fs = [d \in Dirs |-> NoDir]
    /\ env = Unset
    /\ config = Unset
    /\ install_path = NoPath
    /\ last = [op |-> "none", raised |-> FALSE, doc |-> PlainDoc(<<>>), value |-> Null]
    /\ hist \in {[content |-> doc] : doc \in Documents}
    /\ procs = <<>>

TransformSkill ==
    /\ last' = TransformCall("transform_skill", TransformSkillResult(hist.content))
    /\ UNCHANGED <<fs, env, config, install_path, hist, procs>>

TransformAgent ==
    /\ last' = TransformCall("transform_agent", TransformAgentResult(hist.content))
    /\ UNCHANGED <<fs, env, config, install_path, hist, procs>>

TransformCommand ==
    /\ last' = TransformCall("transform_command", TransformCommandResult(hist.content))
    /\ UNCHANGED <<fs, env, config, install_path, hist, procs>>

\* hook content is plain text (JSON or a script)
TransformHook ==
    /\ ~hist.content.block
    /\ last' = TransformCall("transform_hook", TransformHookResult(hist.content))
    /\ UNCHANGED <<fs, env, config, install_path, hist, procs>>

\* the tools rewrite applied to the tools value of the drawn document
TransformTools ==
    /\ hist.content.block
    /\ "tools" \in DOMAIN hist.content.fm
    /\ last' = ToolsCall(TransformToolsForOpencode(hist.content.fm["tools"]))
    /\ UNCHANGED <<fs, env, config, install_path, hist, procs>>

\* the record of a call of the field rewrite: doc carries the metadata it
\* returned, value whether the call was given the metadata of the call before
FieldsCall(again, frontmatter) ==
    [op |-> "_transform_frontmatter", raised |-> FrontmatterRaises(frontmatter),
     doc |-> IF FrontmatterRaises(frontmatter) THEN PlainDoc(<<>>)
             ELSE BlockDoc(TransformFrontmatter(frontmatter), <<>>),
     value |-> Bool(again)]

\* the field rewrite applied to the metadata of the drawn document
TransformFields ==
    /\ hist.content.block
    /\ last' = FieldsCall(FALSE, hist.content.fm)
    /\ UNCHANGED <<fs, env, config, install_path, hist, procs>>

\* the field rewrite applied to the metadata its last call returned
TransformFieldsAgain ==
    /\ last.op = "_transform_frontmatter"
    /\ ~last.raised
    /\ last' = FieldsCall(TRUE, last.doc.fm)
    /\ UNCHANGED <<fs, env, config, install_path, hist, procs>>

NextTransform ==
    TransformSkill \/ TransformAgent \/ TransformCommand \/ TransformHook
        \/ TransformTools \/ TransformFields \/ TransformFieldsAgain

SpecTransform == InitTransform /\ [][NextTransform]_vars

(***************************************************************************)
(* The purity specification: the transforms are called on one document,    *)
(* with one metadata argument or another, between calls of                 *)
(* get_install_path and merges that change the memoized path and the       *)
(* target file.  hist keeps the document, the metadata arguments given and *)
(* what each transform returned.                                           *)
(***************************************************************************)
TransformOps == {"transform_skill", "transform_agent", "transform_command", "transform_hook"}

\* the metadata argument: None or a mapping
MetadataArgs == {Null, Map(<<<<Str(<<"n", "a", "m", "e">>), Str(<<"x">>)>>>>)}

PureDocuments ==
    { PlainDoc(<<>>),
      PlainDoc(<<"B", "a", "s", "h", " ", "t", "o", "o", "l">>),
      PlainDoc(S_BareRoot \o S_HooksDir \o <<"x">>),
      BlockDoc(("model" :> Str(<<"s", "o", "n", "n", "e", "t">>)) @@ ("tools" :> List(<<Str(<<"B", "a", "s", "h">>)>>)), <<"B", "a", "s", "h", " ", "t", "o", "o", "l">>),
      BlockDoc(("type" :> Str(<<"s", "u", "b", "a", "g", "e", "n", "t">>)) @@ ("args" :> Str(<<"a">>)), <<"B", "a", "s", "h">>),
      BlockDoc("model" :> List(<<Str(<<"s", "o", "n", "n", "e", "t">>)>>), <<>>) }

\* hist after op, given metadata, returned result
Noted(op, metadata, result) ==
    [hist EXCEPT !.args = @ \cup {metadata},
                 !.returned[op] = @ \cup {result}]

InitPure ==
    /\ fs = [d \in Dirs |-> DirWith(TextFile(0, "json", DictCfg(Theme, HooksAbsent)))]
    /\ env \in {Unset, P(FALSE, <<"~", "oc">>)}
    /\ config = Unset
    /\ install_path = NoPath
    /\ last = NoCall
    /\ hist \in {[content |-> doc, args |-> {}, returned |-> [op \in TransformOps |-> {}]] :
                    doc \in PureDocuments}
    /\ procs = <<>>

PureSkill ==
    \E metadata \in MetadataArgs, result \in {TransformSkillResult(hist.content)} :
        /\ last' = TransformCall("transform_skill", result)
        /\ hist' = Noted("transform_skill", metadata, result)
        /\ UNCHANGED <<fs, env, config, install_path, procs>>

PureAgent ==
    \E metadata \in MetadataArgs, result \in {TransformAgentResult(hist.content)} :
        /\ last' = TransformCall("transform_agent", result)
        /\ hist' = Noted("transform_agent", metadata, result)
        /\ UNCHANGED <<fs, env, config, install_path, procs>>

PureCommand ==
    \E metadata \in MetadataArgs, result \in {TransformCommandResult(hist.content)} :
        /\ last' = TransformCall("transform_command", result)
        /\ hist' = Noted("transform_command", metadata, result)
        /\ UNCHANGED <<fs, env, config, install_path, procs>>

PureHook ==
    \E metadata \in MetadataArgs, result \in {TransformHookResult(hist.content)} :
        /\ ~hist.content.block
        /\ last' = TransformCall("transform_hook", result)
        /\ hist' = Noted("transform_hook", metadata, result)
        /\ UNCHANGED <<fs, env, config, install_path, procs>>

PureGetInstallPath == GetInstallPath /\ UNCHANGED <<hist, procs>>

PureMerge ==
    /\ MergeHooks(Bare("PreToolUse" :> <<"X">>), FALSE, DefaultDir, "ok")
    /\ WithinBound(fs', MaxLen)
    /\ UNCHANGED <<hist, procs>>

NextPure ==
    PureSkill \/ PureAgent \/ PureCommand \/ PureHook \/ PureGetInstallPath \/ PureMerge

SpecPure == InitPure /\ [][NextPure]_vars

(***************************************************************************)
(* The frontmatter codec (extract_frontmatter and create_frontmatter of    *)
(* the base adapter; spec section 4.1).  The header of a document gives    *)
(* each field a written form [style, text, parts]:                         *)
(*   plain    key: text          the text resolved to a type               *)
(*   quoted   key: "text"        always a string                           *)
(*   block    key: | or key: |-  parts the lines of a multi-line string,   *)
(*                               text the indicator: | keeps one final     *)
(*                               newline, |- none                          *)
(*   items    key: then - form   parts the written forms of a list         *)
(*   nested   key: then k: form  parts the <<key, written form>> pairs of  *)
(*                               a nested mapping                          *)
(***************************************************************************)
Form(style, text, parts) == [style |-> style, text |-> text, parts |-> parts]

S_true == <<"t", "r", "u", "e">>
S_false == <<"f", "a", "l", "s", "e">>
S_null == <<"n", "u", "l", "l">>

\* the type a plain scalar is resolved to
ResolvePlain(text) ==
    CASE text = S_true -> Bool(TRUE)
      [] text = S_false -> Bool(FALSE)
      [] text = S_null \/ text = <<"~">> \/ text = <<>> -> Null
      [] text # <<>> /\ (\A i \in 1..Len(text) : \E d \in 1..Len(Digits) : text[i] = Digits[d]) -> Number(text)
      [] OTHER -> Str(text)

\* the lines of a block joined by newlines
RECURSIVE JoinLines(_)
JoinLines(lines) ==
    IF lines = <<>> THEN <<>>
    ELSE IF Len(lines) = 1 THEN lines[1]
    ELSE lines[1] \o <<"\n">> \o JoinLines(Tail(lines))

\* structural parsing of one written form
RECURSIVE ParseForm(_)
ParseForm(w) ==
    CASE w.style = "plain" -> ResolvePlain(w.text)
      [] w.style = "quoted" -> Str(w.text)
      [] w.style = "block" ->
            Str(JoinLines(w.parts) \o (IF w.text = <<"|">> THEN <<"\n">> ELSE <<>>))
      [] w.style = "items" -> List([i \in 1..Len(w.parts) |-> ParseForm(w.parts[i])])
      [] OTHER ->
            Map([i \in 1..Len(w.parts) |-> <<Str(w.parts[i][1]), ParseForm(w.parts[i][2])>>])

\* extract: the metadata of a header
ParseHeader(header) == [key \in DOMAIN header |-> ParseForm(header[key])]

\* a string that cannot be written plain: it would be resolved to another
\* type, spans lines, or begins or ends with what the syntax gives a meaning
NeedsQuote(text) ==
    \/ ResolvePlain(text) # Str(text)
    \/ \E i \in 1..Len(text) : text[i] \in {"\n", ":", "#"}
    \/ text[1] \in {" ", "-", "[", "{", "|", ">", "\"", "'"}
    \/ text[Len(text)] = " "

\* mutant of WriteForm: every string written plain
RECURSIVE WriteFormPlain(_)
WriteFormPlain(val) ==
    CASE val.k = "str" -> Form("plain", val.v, <<>>)
      [] val.k = "int" -> Form("plain", val.v, <<>>)
      [] val.k = "bool" -> Form("plain", IF val.v THEN S_true ELSE S_false, <<>>)
      [] val.k = "null" -> Form("plain", S_null, <<>>)
      [] val.k = "list" ->
            Form("items", <<>>, [i \in 1..Len(val.v) |-> WriteFormPlain(val.v[i])])
      [] OTHER ->
            Form("nested", <<>>,
                 [i \in 1..Len(val.v) |-> <<val.v[i][1].v, WriteFormPlain(val.v[i][2])>>])

\* serialize: the written form of one value
RECURSIVE WriteForm(_)
WriteForm(val) ==
    CASE val.k = "str" ->
            IF NeedsQuote(val.v) THEN Form("quoted", val.v, <<>>)
            ELSE Form("plain", val.v, <<>>)
      [] val.k = "int" -> Form("plain", val.v, <<>>)
      [] val.k = "bool" -> Form("plain", IF val.v THEN S_true ELSE S_false, <<>>)
      [] val.k = "null" -> Form("plain", S_null, <<>>)
      [] val.k = "list" ->
            Form("items", <<>>, [i \in 1..Len(val.v) |-> WriteForm(val.v[i])])
      [] OTHER ->
            Form("nested", <<>>,
                 [i \in 1..Len(val.v) |-> <<val.v[i][1].v, WriteForm(val.v[i][2])>>])

\* serialize: the header of a metadata
RenderHeader(fm) == [key \in DOMAIN fm |-> WriteForm(fm[key])]

(***************************************************************************)
(* The codec specification: a header is extracted, the metadata serialized *)
(* to a header, and that header extracted again.  hist keeps the header of *)
(* the document, the metadata of its first extraction and whether a        *)
(* serialized header has been extracted since.                             *)
(***************************************************************************)
ScalarForms ==
    { Form("plain", <<"x">>, <<>>), Form("plain", <<"t", "r", "u", "e">>, <<>>), Form("plain", <<"1">>, <<>>),
      Form("plain", <<"n", "u", "l", "l">>, <<>>), Form("plain", <<"~">>, <<>>), Form("plain", <<>>, <<>>),
      Form("quoted", <<"x">>, <<>>), Form("quoted", <<"t", "r", "u", "e">>, <<>>), Form("quoted", <<"1">>, <<>>),
      Form("quoted", <<>>, <<>>), Form("quoted", <<"a", ":", " ", "b">>, <<>>), Form("quoted", <<" ", "x">>, <<>>),
      Form("quoted", <<"-", " ", "x">>, <<>>), Form("quoted", <<"x", " ", "#", "y">>, <<>>) }

BlockForms ==
    { Form("block", chomp, lines) :
        chomp \in {<<"|">>, <<"|", "-">>}, lines \in {<<<<"a">>>>, <<<<"a">>, <<"b">>>>, <<<<"a">>, <<>>, <<"1">>>>} }

ListForms ==
    { Form("items", <<>>, items) :
        items \in SeqsUpTo({Form("plain", <<"x">>, <<>>), Form("quoted", <<"1">>, <<>>),
                            Form("plain", <<"1">>, <<>>)}, MaxItems) }

NestedForms ==
    { Form("nested", <<>>, <<>>),
      Form("nested", <<>>, << <<<<"x">>, Form("quoted", <<"t", "r", "u", "e">>, <<>>)>> >>),
      Form("nested", <<>>, << <<<<"x">>, Form("plain", <<"x">>, <<>>)>>,
                              <<<<"y">>, Form("items", <<>>, <<Form("quoted", <<"~">>, <<>>)>>)>> >>) }

\* headers with a well-formed block: each field written in some form or
\* left out
NoForm == Form("absent", <<>>, <<>>)
Headers ==
    {[f \in {g \in DOMAIN choice : choice[g] # NoForm} |-> choice[f]] : choice \in
        [name : {NoForm} \cup ScalarForms,
         description : {NoForm} \cup BlockForms,
         tools : {NoForm} \cup ListForms,
         output_schema : {NoForm} \cup NestedForms]}

NoCodecCall == [op |-> "none", header |-> EmptyMap, metadata |-> EmptyMap]

InitCodec ==
    /\ fs = [d \in Dirs |-> NoDir]
    /\ env = Unset
    /\ config = Unset
    /\ install_path = NoPath
    /\ last = NoCodecCall
    /\ hist \in {[content |-> header, first |-> EmptyMap, again |-> FALSE] : header \in Headers}
    /\ procs = <<>>

\* extract_frontmatter on the document, or on the header last serialized
CodecExtract ==
    /\ last.op # "extract_frontmatter"
    /\ \E header \in {IF last.op = "none" THEN hist.content ELSE last.header} :
        /\ last' = [op |-> "extract_frontmatter", header |-> header,
                    metadata |-> ParseHeader(header)]
        /\ hist' = IF last.op = "none"
                   THEN [hist EXCEPT !.first = ParseHeader(header)]
                   ELSE [hist EXCEPT !.again = TRUE]
    /\ UNCHANGED <<fs, env, config, install_path, procs>>

\* create_frontmatter on the metadata last extracted
CodecCreate ==
    /\ last.op = "extract_frontmatter"
    /\ last' = [op |-> "create_frontmatter", header |-> RenderHeader(last.metadata),
                metadata |-> last.metadata]
    /\ UNCHANGED <<fs, env, config, install_path, hist, procs>>

NextCodec == CodecExtract \/ CodecCreate

SpecCodec == InitCodec /\ [][NextCodec]_vars

(***************************************************************************)
(* The config-file specification: the directory may hold an               *)
(* opencode.jsonc beside opencode.json, and a mapping of events is merged  *)
(* bare or wrapped in a "hooks" key.  hist keeps what the same call would  *)
(* have given with the mapping in its other shape.                         *)
(***************************************************************************)
\* the event |-> entries mappings, one of them with an event named "hooks"
ShapeEvents ==
    { EmptyMap,
      ("PreToolUse" :> <<"X">>),
      ("hooks" :> <<"X">>),
      ("hooks" :> <<"X">>) @@ ("PreToolUse" :> <<"Y">>) }

JsoncFile == TextFile(1, "json", DictCfg(Theme, HooksDict(HeldY)))

FilesDirs ==
    { NoDir,
      DirWith(NoFile),
      DirWith(TextFile(0, "json", DictCfg(Theme, HooksAbsent))),
      DirWith(TextFile(1, "json", DictCfg(Theme, HooksDict(HeldY)))),
      DirWithBoth(NoFile, JsoncFile),
      DirWithBoth(TextFile(0, "json", DictCfg(Theme, HooksAbsent)), JsoncFile),
      DirWithBoth(TextFile(0, "loose", DictCfg(Theme, HooksDict(HeldY))), JsoncFile) }

\* the mapping in one shape and in the other
Shaped(ev, wrapped) == IF wrapped THEN Wrapped(ev) ELSE Bare(ev)

InitFilesSpec ==
    /\ fs \in [Dirs -> FilesDirs]
    /\ env \in MergeOverrides
    /\ config = Unset
    /\ install_path = NoPath
    /\ last = NoCall
    /\ hist = [result |-> "none", fs |-> fs]
    /\ procs = <<>>

FilesMerge ==
    \E ev \in ShapeEvents, wrapped, dry_run \in BOOLEAN, ip \in {NoPath, DefaultDir},
       io \in {"ok"} :
        /\ MergeHooks(Shaped(ev, wrapped), dry_run, ip, io)
        /\ WithinBound(fs', MaxLen)
        /\ \E other \in {MergeOutcome(fs, install_path, config, env,
                                       Shaped(ev, ~wrapped), dry_run, ip, io)} :
              hist' = [result |-> other.result, fs |-> other.fs]
        /\ UNCHANGED procs

FilesGetConfigPath == GetConfigPath /\ UNCHANGED <<hist, procs>>

NextFiles == FilesMerge \/ FilesGetConfigPath

SpecFiles == InitFilesSpec /\ [][NextFiles]_vars

(***************************************************************************)
(* What the claims speak of.                                               *)
(***************************************************************************)
\* the last call was a merge that got as far as its target file
MergeDone == last.op = "merge_hooks_to_config" /\ last.base # NoPath
\* ... not a dry run, and it returned true
MergeWrote == MergeDone /\ ~last.dry_run /\ last.result = "true"

\* the target file before and after the last merge
PreFile == last.pre[last.base].json
PostFile == fs[last.base].json

\* the incoming events and their entries
Incoming == HooksToMerge(last.hc).ev

\* the configuration a file's text holds, whether or not the read accepts it
TextHolds(file) ==
    IF file.exists /\ file.syntax \in {"json", "loose"} THEN file.val ELSE EmptyCfg

\* the list a configuration holds for event e (empty when it holds none)
HeldList(cfg, e) ==
    IF cfg.top = "dict" /\ cfg.hooks.kind = "dict" /\ e \in DOMAIN cfg.hooks.ev
    THEN cfg.hooks.ev[e].items
    ELSE <<>>

Count(seq, x) == Cardinality({i \in 1..Len(seq) : seq[i] = x})

\* b holds every top-level key of a other than hooks, with a's value, and
\* every hook entry of a in its event's list
KeepsAll(a, b) ==
    /\ \A k \in DOMAIN a.other : k \in DOMAIN b.other /\ b.other[k] = a.other[k]
    /\ \A e \in DOMAIN a.hooks.ev : \A x \in Entries :
          Count(HeldList(a, e), x) <= Count(HeldList(b, e), x)

(***************************************************************************)
(* C1: a non-dry-run merge that returns true is additive and               *)
(* order-preserving: for every incoming event, the event's list in the     *)
(* written file is the list the merge read from the file before (empty     *)
(* when the event was absent) followed by the incoming entries in their    *)
(* order; nothing is removed, nothing deduplicated.                        *)
(***************************************************************************)
C1_MergeAppendsInOrder ==
    MergeWrote =>
        /\ PostFile.exists /\ PostFile.syntax = "json"
        /\ \A e \in DOMAIN Incoming :
              /\ PostFile.val.hooks.kind = "dict"
              /\ e \in DOMAIN PostFile.val.hooks.ev
              /\ PostFile.val.hooks.ev[e] =
                    ListVal(HeldList(ReadExisting(PreFile), e) \o Incoming[e])

\* existing [Y] plus incoming [X] has given [Y, X]
C1_Witness ==
    /\ MergeWrote
    /\ "PreToolUse" \in DOMAIN Incoming
    /\ Incoming["PreToolUse"] = <<"X">>
    /\ HeldList(ReadExisting(PreFile), "PreToolUse") = <<"Y">>
    /\ HeldList(PostFile.val, "PreToolUse") = <<"Y", "X">>

(***************************************************************************)
(* C2, as claimed: for every content of the target file, after a           *)
(* non-dry-run merge that returns true the file still holds every          *)
(* top-level key other than hooks that it held before, with the same       *)
(* value, and every hook entry it held before.                             *)
(***************************************************************************)
C2_NeverDestroysAnyContent ==
    MergeWrote => KeepsAll(TextHolds(PreFile), TextHolds(PostFile))

(***************************************************************************)
(* C2, amended: the same for every content the merge reads and parses      *)
(* (comment lines dropped); a file it cannot read or parse is replaced.    *)
(***************************************************************************)
C2_KeepsWhatItParsed ==
    (MergeWrote /\ ~ReadFails(PreFile)) =>
        KeepsAll(TextHolds(PreFile), TextHolds(PostFile))

\* a parsed file with a key and a hook entry went through a merge that added to it
C2_Witness ==
    /\ MergeWrote
    /\ ~ReadFails(PreFile)
    /\ PreFile.exists
    /\ DOMAIN PreFile.val.other # {}
    /\ HeldList(PreFile.val, "PreToolUse") # <<>>
    /\ DOMAIN Incoming # {}
    /\ PostFile # PreFile

(***************************************************************************)
(* C3: a merge with dry_run=true never creates or modifies the target      *)
(* file or its directory (the file system after the call is the file       *)
(* system before it) and the call returns true.                            *)
(***************************************************************************)
C3_DryRunLeavesFilesAndReturnsTrue ==
    (last.op = "merge_hooks_to_config" /\ last.dry_run) =>
        (fs = last.pre /\ last.result = "true")

(***************************************************************************)
(* C4: merge_hooks_to_config never propagates an exception: every call     *)
(* ends by returning a boolean, and a failure to create the directory or   *)
(* to write the file gives false.                                          *)
(***************************************************************************)
C4_MergeNeverRaises ==
    last.op = "merge_hooks_to_config" =>
        /\ last.result \in {"true", "false"}
        /\ (~last.dry_run /\ last.io # "ok") => last.result = "false"

(***************************************************************************)
(* C5: when the existing target file cannot be read or parsed, the merge   *)
(* takes the base configuration as empty and goes on: a non-dry-run call   *)
(* whose write succeeds returns true, and the written file holds exactly a *)
(* hooks mapping with the incoming events and entries.                     *)
(***************************************************************************)
C5_UnreadableFileIsEmptyBase ==
    (MergeDone /\ ReadFails(PreFile) /\ ~last.dry_run /\ last.io = "ok") =>
        /\ last.result = "true"
        /\ PostFile = JsonDumps(DictCfg(EmptyMap,
                          HooksDict([e \in DOMAIN Incoming |-> ListVal(Incoming[e])])))

\* an unparseable file that held a key and an entry was merged into
C5_Witness ==
    /\ MergeDone /\ ReadFails(PreFile) /\ ~last.dry_run /\ last.io = "ok"
    /\ DOMAIN PreFile.val.other # {}
    /\ DOMAIN Incoming = {"PreToolUse", "Stop"}

(***************************************************************************)
(* C6: repeated merges accumulate: after n successive non-dry-run calls    *)
(* with the same hooks configuration on the same file that returned true,  *)
(* each incoming event's list is the list the first of them read from the  *)
(* file followed by n copies of the incoming entries, in order.            *)
(***************************************************************************)
RECURSIVE Copies(_, _)
Copies(seq, n) == IF n = 0 THEN <<>> ELSE seq \o Copies(seq, n - 1)

C6_RepeatedMergesAccumulate ==
    hist.n > 0 =>
        \A e \in DOMAIN HooksToMerge(hist.hc).ev :
            HeldList(TextHolds(fs[DefaultDir].json), e) =
                HeldList(ReadExisting(hist.start), e)
                    \o Copies(HooksToMerge(hist.hc).ev[e], hist.n)

\* three merges of PreToolUse: [X] into a file that held [Y]
C6_Witness ==
    /\ hist.n = 3
    /\ HeldList(ReadExisting(hist.start), "PreToolUse") = <<"Y">>
    /\ HeldList(TextHolds(fs[DefaultDir].json), "PreToolUse") = <<"Y", "X", "X", "X">>

(***************************************************************************)
(* C7: the read-modify-write is not protected against a concurrent         *)
(* writer.  When both callers read before either writes and both return    *)
(* true, the final file is the file as read with the entries of the last   *)
(* writer alone: those of the other caller are lost.                       *)
(***************************************************************************)
BothReadFirst ==
    /\ Len(hist.steps) = 4
    /\ hist.steps[1][1] = "read" /\ hist.steps[2][1] = "read"
BothReturnedTrue == \A p \in Callers : procs[p].pc = "done" /\ procs[p].result = "true"
LastWriter == hist.steps[4][2]

C7_LastWriterWins ==
    (BothReadFirst /\ BothReturnedTrue) =>
        LET kept == HooksToMerge(procs[LastWriter].hc).ev
            final == TextHolds(fs[DefaultDir].json)
        IN  \A e \in EventNames :
                HeldList(final, e) =
                    HeldList(ReadExisting(hist.start), e)
                        \o (IF e \in DOMAIN kept THEN kept[e] ELSE <<>>)

\* both returned true, and the Stop entry of caller 1 is not in the file
C7_Witness ==
    /\ BothReadFirst /\ BothReturnedTrue
    /\ LastWriter = 2
    /\ "Stop" \in DOMAIN HooksToMerge(procs[1].hc).ev
    /\ HooksToMerge(procs[1].hc).ev["Stop"] = <<"Y">>
    /\ HeldList(TextHolds(fs[DefaultDir].json), "Stop") = <<>>

(***************************************************************************)
(* C8: on its first call get_install_path returns the resolved override    *)
(* when the override is set and lies within the home directory (home is    *)
(* the path or an ancestor of it, by whole components), and returns the    *)
(* configured default in every other case, without an exception.           *)
(***************************************************************************)
FirstPathCall == last.op = "get_install_path" /\ hist.calls = 1

\* the home directory is p or an ancestor of p
WithinHome(p) ==
    \E k \in 0..Len(p.parts) : SubSeq(p.parts, 1, k) = Resolve(Home).parts

\* the override that counts, if any: set, resolvable and within home
OverrideAccepted(override) ==
    /\ OverrideGiven(override)
    /\ ~ExpandUserRaises(override)
    /\ WithinHome(Resolve(ExpandUser(override)))

C8_FirstCallOverrideOrDefault ==
    FirstPathCall =>
        /\ last.result = "returned"
        /\ last.base = IF OverrideAccepted(last.env)
                       THEN Resolve(ExpandUser(last.env))
                       ELSE ExpandUser(ConfiguredDefault(last.config))

(***************************************************************************)
(* C9: the install path is computed once per adapter instance: every call  *)
(* of get_install_path that returns gives the path the first of them gave, *)
(* whatever is done to the override and the config in between.             *)
(***************************************************************************)
C9_InstallPathComputedOnce ==
    /\ Cardinality(hist.returned) <= 1
    /\ (last.op = "get_install_path" /\ last.result = "returned" /\ last.memo # NoPath)
          => last.base = last.memo

\* a later call returned the first path although computing it again would
\* have given another
C9_Witness ==
    /\ last.op = "get_install_path" /\ last.result = "returned"
    /\ last.memo # NoPath
    /\ hist.calls > 1
    /\ ~InstallPathRaises(NoPath, last.config, last.env)
    /\ ComputeInstallPath(last.config, last.env) # last.base

(***************************************************************************)
(* C10: transforms of a document without a metadata block.                 *)
(***************************************************************************)
\* a transform was applied to the drawn document, which has no metadata block
TransformedPlain == last.op # "none" /\ ~hist.content.block

\* t is old from position i
OccursAt(t, i, old) == i + Len(old) - 1 <= Len(t) /\ SubSeq(t, i, i + Len(old) - 1) = old

\* the text holds a plugin-root placeholder, braced or bare
HoldsPlaceholder(t) ==
    \E i \in 1..Len(t) : OccursAt(t, i, S_BracedRoot) \/ OccursAt(t, i, S_BareRoot)

\* the text names a tool of the table, in any case and as a whole word, with
\* white space and then "tool" or "command" after it
NamesTool(t) ==
    \E k \in 1..Len(ToolNameMap), i \in 1..Len(t) :
        LET name == ToolNameMap[k][1]
            e == i + Len(name)
        IN  /\ OccursAt(LowerStr(t), i, LowerStr(name))
            /\ i = 1 \/ ~IsWord(t[i - 1])
            /\ \E m \in (e + 1)..Len(t) :
                    /\ \A q \in e..(m - 1) : IsSpace(t[q])
                    /\ \/ OccursAt(LowerStr(t), m, S_tool)
                       \/ OccursAt(LowerStr(t), m, S_command)

\* C10 as the spec states it: for every document that has no metadata block,
\* each of transform_skill, transform_agent, transform_command and
\* transform_hook returns the document text unchanged.
C10_PlainDocumentUnchanged ==
    TransformedPlain => ~last.raised /\ last.doc = hist.content

\* C10, amended: for every document that has no metadata block, each transform
\* returns without raising a text with no metadata block added;
\* transform_skill, transform_agent and transform_command return the text
\* unchanged whenever it names no tool of the table followed by white space
\* and "tool" or "command", and transform_hook returns it unchanged whenever
\* it holds no plugin-root placeholder.
C10_PlainDocumentRewrittenOnlyAtReferences ==
    TransformedPlain =>
        /\ ~last.raised
        /\ ~last.doc.block
        /\ last.doc.fm = EmptyMap
        /\ last.op = "transform_hook" /\ ~HoldsPlaceholder(hist.content.body)
                => last.doc.body = hist.content.body
        /\ last.op # "transform_hook" /\ ~NamesTool(hist.content.body)
                => last.doc.body = hist.content.body

\* a text that names Bash, but not as a tool reference, came back unchanged
\* from transform_skill
C10_Witness ==
    /\ TransformedPlain
    /\ last.op = "transform_skill"
    /\ \E i \in 1..Len(hist.content.body) :
            OccursAt(hist.content.body, i, <<"B", "a", "s", "h">>)
    /\ ~NamesTool(hist.content.body)
    /\ last.doc = hist.content

(***************************************************************************)
(* C11: no exception leaves transform_skill, transform_agent or            *)
(* transform_command.                                                      *)
(***************************************************************************)
MetadataTransforms == {"transform_skill", "transform_agent", "transform_command"}

\* C11: whatever kind of value the metadata block of the document gives to
\* model, tools, type, args or any other field, a call of transform_skill,
\* transform_agent or transform_command returns a document: no exception
\* leaves it.
C11_TransformReturnsForEveryBlock ==
    last.op \in MetadataTransforms => ~last.raised

(***************************************************************************)
(* C12: the model rewrite.                                                 *)
(***************************************************************************)
\* a transform of metadata was applied to a document with a metadata block;
\* the metadata it had and the metadata of the document returned
BlockTransformed == last.op \in MetadataTransforms /\ hist.content.block
MetadataIn == hist.content.fm
MetadataOut == last.doc.fm

KnownShorthands == {Str(<<"o", "p", "u", "s">>), Str(<<"s", "o", "n", "n", "e", "t">>), Str(<<"h", "a", "i", "k", "u">>)}

\* the model value the rule of the claim gives for the value model
RewrittenModel(model) ==
    IF model \in KnownShorthands THEN Str(Lookup(ModelMap, model.v))
    ELSE IF ~(\E i \in 1..Len(PyStr(model)) : PyStr(model)[i] = "/")
            /\ model # Str(<<"i", "n", "h", "e", "r", "i", "t">>)
    THEN Str(<<"a", "n", "t", "h", "r", "o", "p", "i", "c", "/">> \o PyStr(model))
    ELSE model

\* C12: for every metadata with a model field, a known shorthand (opus,
\* sonnet, haiku) becomes its fixed fully qualified identifier, any other
\* value with no '/' that is not 'inherit' becomes 'anthropic/' followed by the
\* value, and a value with '/' and the value 'inherit' stay as they are;
\* metadata without a model field gets no model field.
C12_ModelRewritten ==
    BlockTransformed =>
        /\ ~last.raised
        /\ IF "model" \in DOMAIN MetadataIn
           THEN /\ "model" \in DOMAIN MetadataOut
                /\ MetadataOut["model"] = RewrittenModel(MetadataIn["model"])
           ELSE "model" \notin DOMAIN MetadataOut

(***************************************************************************)
(* C13: the tools rewrite of a mapping.                                    *)
(***************************************************************************)
\* the tools rewrite was applied; the value it was given and the value it
\* returned
ToolsRewritten == last.op = "_transform_tools_for_opencode"
ToolsIn == hist.content.fm["tools"]
ToolsOut == last.value

\* T(k): the entry of the tool-name table for the name k or, when there is
\* none, k in lower case; a key that is no string has no letters to lower
TableNames == {ToolNameMap[i][1] : i \in 1..Len(ToolNameMap)}
TOfName(name) ==
    IF name \in TableNames
    THEN ToolNameMap[CHOOSE i \in 1..Len(ToolNameMap) : ToolNameMap[i][1] = name][2]
    ELSE [i \in 1..Len(name) |-> Lower(name[i])]
TOfKey(key) == IF key.k = "str" THEN Str(TOfName(key.v)) ELSE key

\* the pairs of a mapping give each key once, and the keys they give
KeysOnce(pairs) == \A i, j \in 1..Len(pairs) : pairs[i][1] = pairs[j][1] => i = j
KeysOf(pairs) == {pairs[i][1] : i \in 1..Len(pairs)}

\* the value the result gives to key is that of the last of the input pairs
\* at positions among whose key gives key
CarriesLast(in, among, out) ==
    \A o \in 1..Len(out) :
        LET from == {i \in among : TOfKey(in[i][1]) = out[o][1]}
        IN  /\ from # {}
            /\ out[o][2] = in[CHOOSE i \in from : \A j \in from : j <= i][2]

\* C13 as the spec states it: when the tools value is a mapping, the result is
\* a mapping whose keys are exactly the names T(k) of the input keys k, each
\* with the value of its input key, the last in input order when several
\* input keys give the same name.
C13_MappingKeysAreAllInputKeys ==
    (ToolsRewritten /\ ToolsIn.k = "map") =>
        /\ ToolsOut.k = "map"
        /\ KeysOnce(ToolsOut.v)
        /\ KeysOf(ToolsOut.v) = {TOfKey(key) : key \in KeysOf(ToolsIn.v)}
        /\ CarriesLast(ToolsIn.v, 1..Len(ToolsIn.v), ToolsOut.v)

\* C13, amended: when the tools value is a mapping, the result is a mapping
\* whose keys are exactly the names T(k) of the input keys k that are strings
\* (a key that is not a string is left out with its value); each result key
\* has the value of its input key, the last in input order when several
\* input keys give the same name.
StringKeyed(pairs) == {i \in 1..Len(pairs) : pairs[i][1].k = "str"}
C13_MappingKeysAreStringInputKeys ==
    (ToolsRewritten /\ ToolsIn.k = "map") =>
        /\ ToolsOut.k = "map"
        /\ KeysOnce(ToolsOut.v)
        /\ KeysOf(ToolsOut.v) = {TOfKey(ToolsIn.v[i][1]) : i \in StringKeyed(ToolsIn.v)}
        /\ CarriesLast(ToolsIn.v, StringKeyed(ToolsIn.v), ToolsOut.v)

\* Bash enabled and then bash disabled came out as bash disabled alone
C13_Witness ==
    /\ ToolsRewritten
    /\ ToolsIn = Map(<<<<Str(<<"B", "a", "s", "h">>), Bool(TRUE)>>, <<Str(<<"b", "a", "s", "h">>), Bool(FALSE)>>>>)
    /\ ToolsOut = Map(<<<<Str(<<"b", "a", "s", "h">>), Bool(FALSE)>>>>)

(***************************************************************************)
(* C14: the tools rewrite of a list.                                       *)
(***************************************************************************)
\* the positions of the list whose entry is kept: an entry that is no string,
\* and the first of the string entries that give a name
FirstOccurrences(tools) ==
    {i \in 1..Len(tools) :
        tools[i].k = "str" =>
            \A j \in 1..(i - 1) :
                tools[j].k = "str" => TOfKey(tools[j]) # TOfKey(tools[i])}

\* the r-th position of a set of positions
NthOf(positions, r) ==
    CHOOSE i \in positions : Cardinality({j \in positions : j <= i}) = r

\* each mapped name once, at the place of its first occurrence and in input
\* order, the entries that are no strings unchanged at their place
MappedOnceInOrder(tools, out) ==
    /\ Len(out) = Cardinality(FirstOccurrences(tools))
    /\ \A r \in 1..Len(out) : out[r] = TOfKey(tools[NthOf(FirstOccurrences(tools), r)])

\* no two entries of the result come from input entries that differ only in
\* letter case
DedupIgnoresCase(tools, out) ==
    \A i, j \in 1..Len(tools) :
        (/\ tools[i].k = "str" /\ tools[j].k = "str"
         /\ LowerStr(tools[i].v) = LowerStr(tools[j].v))
            => ~(\E a, b \in 1..Len(out) :
                    a # b /\ out[a] = TOfKey(tools[i]) /\ out[b] = TOfKey(tools[j]))

\* C14: when the tools value is a list, the result holds each mapped name
\* once, at the position of its first occurrence and in input order; two input
\* entries that differ only in letter case never give two entries in the
\* result; entries that are not strings pass through unchanged at their
\* position.
C14_ListMappedOnceIgnoringCase ==
    (ToolsRewritten /\ ToolsIn.k = "list") =>
        /\ ToolsOut.k = "list"
        /\ MappedOnceInOrder(ToolsIn.v, ToolsOut.v)
        /\ DedupIgnoresCase(ToolsIn.v, ToolsOut.v)

(***************************************************************************)
(* C15: the agent rule that turns type into mode.                          *)
(***************************************************************************)
AgentTransformed == last.op = "transform_agent" /\ hist.content.block

\* C15: for agent metadata with type 'subagent' or 'primary' and no mode
\* field, the transformed metadata has mode equal to that type value and no
\* type field; when a mode field is already set, the transformed metadata
\* keeps that mode value.
C15_AgentTypeBecomesMode ==
    AgentTransformed =>
        /\ (/\ "type" \in DOMAIN MetadataIn
            /\ MetadataIn["type"] \in {Str(<<"s", "u", "b", "a", "g", "e", "n", "t">>), Str(<<"p", "r", "i", "m", "a", "r", "y">>)}
            /\ "mode" \notin DOMAIN MetadataIn)
                => /\ ~last.raised
                   /\ "mode" \in DOMAIN MetadataOut
                   /\ MetadataOut["mode"] = MetadataIn["type"]
                   /\ "type" \notin DOMAIN MetadataOut
        /\ "mode" \in DOMAIN MetadataIn
                => /\ ~last.raised
                   /\ "mode" \in DOMAIN MetadataOut
                   /\ MetadataOut["mode"] = MetadataIn["mode"]

(***************************************************************************)
(* C16: fields are removed only where a rule says so.                      *)
(***************************************************************************)
\* the fields the rules of the operation remove or turn into another field:
\* the drop-list of the kind, a type converted to mode, an args or arguments
\* renamed to argument-hint
RuleRemoves(op, fm) ==
    CASE op = "transform_agent" ->
            {"version", "last_updated", "changelog", "output_schema"}
                \cup {f \in {"type"} \cap DOMAIN fm :
                        /\ fm[f] \in {Str(<<"s", "u", "b", "a", "g", "e", "n", "t">>), Str(<<"p", "r", "i", "m", "a", "r", "y">>)}
                        /\ "mode" \notin DOMAIN fm}
      [] op = "transform_command" ->
            {"name", "version", "type", "tags"}
                \cup (IF "argument-hint" \in DOMAIN fm THEN {}
                      ELSE IF "args" \in DOMAIN fm THEN {"args"}
                      ELSE {"arguments"})
      [] OTHER -> {}

DropListOf(op) ==
    CASE op = "transform_agent" -> {"version", "last_updated", "changelog", "output_schema"}
      [] op = "transform_command" -> {"name", "version", "type", "tags"}
      [] OTHER -> {}

\* C16: the output metadata of transform_agent has no field of the agent
\* drop-list and that of transform_command none of the command drop-list;
\* every other input field, apart from a type converted to mode and an args
\* or arguments renamed to argument-hint, is present in the output and, apart
\* from model and tools, has its input value.
C16_FieldsKeptUnlessRuleDrops ==
    BlockTransformed =>
        /\ ~last.raised
        /\ DOMAIN MetadataOut \cap DropListOf(last.op) = {}
        /\ \A f \in DOMAIN MetadataIn \ RuleRemoves(last.op, MetadataIn) :
                /\ f \in DOMAIN MetadataOut
                /\ f \notin {"model", "tools"} => MetadataOut[f] = MetadataIn[f]

(***************************************************************************)
(* C17: the command rule that renames args or arguments.                   *)
(***************************************************************************)
CommandTransformed == last.op = "transform_command" /\ hist.content.block

\* the output has argument-hint with the value the input gave to field, and
\* no longer has field
RenamedToHint(field) ==
    /\ ~last.raised
    /\ "argument-hint" \in DOMAIN MetadataOut
    /\ MetadataOut["argument-hint"] = MetadataIn[field]
    /\ field \notin DOMAIN MetadataOut

\* C17: when the command metadata has no argument-hint field, an args field
\* is renamed to argument-hint (same value, args removed), and an arguments
\* field is renamed only when there is no args field, so that with both the
\* value of args is used; when argument-hint is present its value is left
\* unchanged.
C17_ArgsRenamedToArgumentHint ==
    CommandTransformed =>
        /\ ("argument-hint" \notin DOMAIN MetadataIn /\ "args" \in DOMAIN MetadataIn)
                => RenamedToHint("args")
        /\ (/\ "argument-hint" \notin DOMAIN MetadataIn
            /\ "args" \notin DOMAIN MetadataIn
            /\ "arguments" \in DOMAIN MetadataIn)
                => RenamedToHint("arguments")
        /\ "argument-hint" \in DOMAIN MetadataIn
                => /\ ~last.raised
                   /\ "argument-hint" \in DOMAIN MetadataOut
                   /\ MetadataOut["argument-hint"] = MetadataIn["argument-hint"]

(***************************************************************************)
(* C18: the rewrite of tool references in the body.                        *)
(***************************************************************************)
\* the word w stands at position i of t: w itself, with no word character
\* before it and none after it
WordAt(t, i, w) ==
    /\ OccursAt(t, i, w)
    /\ i = 1 \/ ~IsWord(t[i - 1])
    /\ i + Len(w) > Len(t) \/ ~IsWord(t[i + Len(w)])

\* at position i stands the tool name, in any letter case and as a whole
\* word, with white space and then the word "tool" or "command" after it
ReferenceAt(t, i, name) ==
    /\ WordAt(LowerStr(t), i, LowerStr(name))
    /\ \E m \in (i + Len(name) + 1)..Len(t) :
            /\ \A q \in (i + Len(name))..(m - 1) : IsSpace(t[q])
            /\ WordAt(t, m, S_tool) \/ WordAt(t, m, S_command)

\* the body with each such reference replaced by the platform name and every
\* other part as it was
RECURSIVE ReferencesReplacedFrom(_, _)
ReferencesReplacedFrom(t, i) ==
    LET j == Leftmost({p \in i..Len(t) :
                 \E k \in 1..Len(ToolNameMap) : ReferenceAt(t, p, ToolNameMap[k][1])})
    IN  IF j = 0 THEN SubSeq(t, i, Len(t))
        ELSE LET k == CHOOSE k \in 1..Len(ToolNameMap) : ReferenceAt(t, j, ToolNameMap[k][1])
             IN  SubSeq(t, i, j - 1) \o ToolNameMap[k][2]
                     \o ReferencesReplacedFrom(t, j + Len(ToolNameMap[k][1]))

\* C18: in the body of a skill, agent or command a tool name is replaced by
\* the platform name only where it is a whole word (in any letter case)
\* followed by white space and then the word 'tool' or 'command'; every other
\* part of the body, a tool name followed by any other word included, is left
\* unchanged.
C18_BodyRewrittenOnlyAtToolReferences ==
    last.op \in MetadataTransforms =>
        /\ ~last.raised
        /\ last.doc.body = ReferencesReplacedFrom(hist.content.body, 1)

(***************************************************************************)
(* C19: the rewrite of hook content.                                       *)
(***************************************************************************)
HookTransformed == last.op = "transform_hook"

\* the content with, at each position, a placeholder followed by /hooks/
\* replaced by the hook prefix, any other placeholder by the config
\* directory, and every other character as it was
RECURSIVE PlaceholdersReplacedFrom(_, _)
PlaceholdersReplacedFrom(t, i) ==
    LET j == Leftmost({p \in i..Len(t) :
                 OccursAt(t, p, S_BracedRoot) \/ OccursAt(t, p, S_BareRoot)})
        before == SubSeq(t, i, j - 1)
    IN  IF j = 0 THEN SubSeq(t, i, Len(t))
        ELSE IF OccursAt(t, j, S_BracedRoot \o S_HooksDir)
        THEN before \o S_HookPrefix
                 \o PlaceholdersReplacedFrom(t, j + Len(S_BracedRoot \o S_HooksDir))
        ELSE IF OccursAt(t, j, S_BareRoot \o S_HooksDir)
        THEN before \o S_HookPrefix
                 \o PlaceholdersReplacedFrom(t, j + Len(S_BareRoot \o S_HooksDir))
        ELSE IF OccursAt(t, j, S_BracedRoot)
        THEN before \o S_ConfigDir \o PlaceholdersReplacedFrom(t, j + Len(S_BracedRoot))
        ELSE before \o S_ConfigDir \o PlaceholdersReplacedFrom(t, j + Len(S_BareRoot))

\* C19: for every hook content, each occurrence of the plugin-root
\* placeholder (braced or unbraced) followed by '/hooks/' is replaced at that
\* position by 'bash ~/.config/opencode/hook/' and each other occurrence by
\* '~/.config/opencode', the root-plus-hooks substitutions taking precedence,
\* and the result holds no occurrence of either form of the placeholder.
C19_HookPlaceholdersReplaced ==
    HookTransformed =>
        /\ ~last.raised
        /\ last.doc.body = PlaceholdersReplacedFrom(hist.content.body, 1)
        /\ ~HoldsPlaceholder(last.doc.body)

\* the bare placeholder followed by /hooks/ came back as the hook prefix
C19_Witness ==
    /\ HookTransformed
    /\ hist.content.body = S_BareRoot \o S_HooksDir \o <<"/", "x">>
    /\ last.doc.body = S_HookPrefix \o <<"/", "x">>


(***************************************************************************)
(* C20.  The transforms are pure.                                          *)
(***************************************************************************)
\* the step is a call of one of the four transforms
TransformStep == \E op \in TransformOps : hist'.returned[op] # hist.returned[op]

\* a transform call leaves the file system (the target config file), the
\* memoized install path, the config and the environment as they were
TransformFrame ==
    TransformStep =>
        /\ fs' = fs
        /\ install_path' = install_path
        /\ config' = config
        /\ env' = env

\* whatever the metadata arguments given and whatever was called before, a
\* transform has returned one result only for the document
OneResultPerTransform ==
    \A op \in TransformOps : Cardinality(hist.returned[op]) <= 1

ExtractedAgain == last.op = "extract_frontmatter" /\ hist.again

\* C21: for every document with a well-formed metadata block, extracting the
\* metadata, serializing it to a header and extracting again yields a
\* metadata structure equal to the first extraction.
C21_RoundTripGivesFirstExtraction ==
    ExtractedAgain => last.metadata = hist.first

\* a header whose name is the quoted string "true" and whose description is
\* a block of two lines went round: the name is still a string, the
\* description still the two lines
C21_Witness ==
    /\ ExtractedAgain
    /\ DOMAIN hist.content = {"name", "description"}
    /\ hist.content["name"] = Form("quoted", <<"t", "r", "u", "e">>, <<>>)
    /\ last.header["name"] = Form("quoted", <<"t", "r", "u", "e">>, <<>>)
    /\ last.metadata["name"] = Str(<<"t", "r", "u", "e">>)
    /\ hist.content["description"] = Form("block", <<"|">>, <<<<"a">>, <<"b">>>>)
    /\ last.metadata["description"] = Str(<<"a", "\n", "b", "\n">>)

(***************************************************************************)
(* C22: comment lines of the target file.                                  *)
(***************************************************************************)
\* the file before the merge was a valid structure apart from comment lines
CommentedFile ==
    MergeDone /\ PreFile.exists /\ PreFile.comments > 0 /\ PreFile.syntax = "json"

\* C22: when the existing file is a valid structure apart from lines whose
\* trimmed content starts with '//', those lines are dropped before parsing
\* and the rest is the base configuration, its keys and hook entries kept in
\* the merge; the file the merge writes contains none of the comment lines.
C22_CommentLinesDroppedRestKept ==
    (CommentedFile /\ MergeWrote) =>
        /\ PostFile.exists /\ PostFile.syntax = "json"
        /\ PostFile.comments = 0
        /\ PostFile.val.top = PreFile.val.top
        /\ KeepsAll(PreFile.val, PostFile.val)
        /\ \A e \in DOMAIN Incoming :
              HeldList(PostFile.val, e) = HeldList(PreFile.val, e) \o Incoming[e]

\* a commented file holding a key and the entry Y took the entry X
C22_Witness ==
    /\ CommentedFile /\ MergeWrote
    /\ PreFile.val.other = Theme
    /\ HeldList(PreFile.val, "PreToolUse") = <<"Y">>
    /\ PostFile.comments = 0
    /\ PostFile.val.other = Theme
    /\ HeldList(PostFile.val, "PreToolUse") = <<"Y", "X">>

(***************************************************************************)
(* C23: the two shapes of the incoming configuration.                      *)
(***************************************************************************)
\* C23: starting from the same target file, merging a mapping H of event
\* names to entry lists and merging the wrapped form {"hooks": H} give the
\* same return value and the same resulting file.
C23_BareAndWrappedAgree ==
    last.op = "merge_hooks_to_config" =>
        /\ last.result = hist.result
        /\ fs = hist.fs

(***************************************************************************)
(* C24: opencode.json and opencode.jsonc.                                  *)
(***************************************************************************)
\* C24: a merge reads and writes the file opencode.json under the base path
\* and never touches opencode.jsonc; when opencode.jsonc exists,
\* get_config_path returns the .jsonc file, yet a merge leaves that file
\* unchanged and puts the hooks into opencode.json.
C24_MergeUsesJsonNeverJsonc ==
    /\ (last.op = "get_config_path" /\ last.base # NoPath /\ fs[last.base].jsonc.exists)
            => last.result = "opencode.jsonc"
    /\ MergeDone => fs[last.base].jsonc = last.pre[last.base].jsonc
    /\ MergeWrote =>
            /\ PostFile.exists /\ PostFile.syntax = "json"
            /\ \A e \in DOMAIN Incoming :
                  HeldList(PostFile.val, e) = HeldList(ReadExisting(PreFile), e) \o Incoming[e]

\* beside an opencode.jsonc that holds the entry Y, a merge made an
\* opencode.json with the entry X alone
C24_Witness ==
    /\ MergeWrote
    /\ fs[last.base].jsonc = JsoncFile
    /\ ~PreFile.exists
    /\ HeldList(PostFile.val, "PreToolUse") = <<"X">>

(***************************************************************************)
(* C25  The field rewrite is idempotent: for every metadata whose model is *)
(* a string and whose tools value is a mapping or a list of strings, the   *)
(* model and tools rewrite applied to its own output returns that output   *)
(* (a rewritten model is not prefixed or mapped again, a rewritten tool    *)
(* name maps to itself).  A metadata that lacks one of the two fields is   *)
(* covered as well.                                                        *)
(***************************************************************************)
StringModelAndTools(fm) ==
    /\ "model" \in DOMAIN fm => fm["model"].k = "str"
    /\ "tools" \in DOMAIN fm =>
          \/ fm["tools"].k = "map"
          \/ /\ fm["tools"].k = "list"
             /\ \A i \in 1..Len(fm["tools"].v) : fm["tools"].v[i].k = "str"

RewrittenAgain ==
    /\ last.op = "_transform_frontmatter"
    /\ last.value = Bool(TRUE)

C25_FieldRewriteIdempotent ==
    [][(RewrittenAgain' /\ StringModelAndTools(hist.content.fm))
          => (~last'.raised /\ last'.doc = last.doc)]_vars

C25_Witness ==
    /\ RewrittenAgain
    /\ DOMAIN hist.content.fm = {"model", "tools"}
    /\ hist.content.fm["model"] = Str(<<"s", "o", "n", "n", "e", "t">>)
    /\ hist.content.fm["tools"] = List(<<Str(<<"B", "a", "s", "h">>)>>)
    /\ last.doc.fm["model"] = Str(Lookup(ModelMap, <<"s", "o", "n", "n", "e", "t">>))
    /\ last.doc.fm["tools"] = List(<<Str(<<"b", "a", "s", "h">>)>>)

(***************************************************************************)
(* C26  A transformed agent or command has a metadata header exactly when  *)
(* the metadata is non-empty after the field rewrite: when every field of  *)
(* the input metadata is in the drop-list of the kind, the document        *)
(* returned is the rewritten body alone, with no metadata block; otherwise *)
(* it is the serialized header, a newline and the rewritten body.          *)
(***************************************************************************)
KindTransformed ==
    /\ last.op \in {"transform_agent", "transform_command"}
    /\ hist.content.block

C26_HeaderExactlyWhenFieldsRemain ==
    KindTransformed =>
        /\ ~last.raised
        /\ last.doc.body = NormalizeToolReferences(hist.content.body)
        /\ IF DOMAIN MetadataIn \subseteq DropListOf(last.op)
           THEN ~last.doc.block
           ELSE last.doc.block /\ DOMAIN MetadataOut # {}

====
